---- MODULE Spec2Model ----
(***************************************************************************)
(* Key lifecycle of signify_rs: the Manager (core/manager.rs) over a       *)
(* KeyStore (the in-memory Keeper), with its creators, incept, rotate and  *)
(* sign.                                                                   *)
(*                                                                         *)
(* Abstractions.  A 16-byte salt is a positive number (0 is the empty      *)
(* string), an Ed25519 seed is the record of what produced it (Argon2id    *)
(* over (salt, path, tier) or a draw of the random generator); stretching  *)
(* and the seed -> public key map are injective.  A qb64 salt string kept  *)
(* in the store is a record [enc, salt]: enc = 0 for the plain "0A.."      *)
(* text, enc = a for the sealed-box cipher text under the aeid a.  A pair  *)
(* (seed, aeid) given to Manager::new matches when both are the same       *)
(* number.  Random draws are fresh: the n-th draw is the number n.  An     *)
(* Option is a set with at most one element.  The creation time dt of a    *)
(* PubLot is left out; key codes are always ED25519_SEED and temp = false. *)
(***************************************************************************)
EXTENDS Integers, Sequences, FiniteSets, TLC

\* ------------------------------------------------------------------ bounds
MaxPidx == 2
MaxRidx == 3
MaxRnd == 8

\* ------------------------------------------------------------ Option<T>
None == {}
Some(x) == {x}
Unwrap(o) == CHOOSE x \in o : TRUE
UnwrapOr(o, d) == IF o = {} THEN d ELSE Unwrap(o)
OptOr(a, b) == IF a # {} THEN a ELSE b

\* ------------------------------------------------------- format!("{:x}")
HexDigits == <<"0", "1", "2", "3", "4", "5", "6", "7",
               "8", "9", "a", "b", "c", "d", "e", "f">>

RECURSIVE Hex(_)
Hex(n) == IF n < 16 THEN <<HexDigits[n + 1]>>
          ELSE Hex(n \div 16) \o <<HexDigits[(n % 16) + 1]>>

IsHexDigit(c) == \E i \in 1..16 : HexDigits[i] = c
DigitVal(c) == (CHOOSE i \in 1..16 : HexDigits[i] = c) - 1

RECURSIVE HexVal(_)
HexVal(s) == IF Len(s) = 0 THEN 0
             ELSE 16 * HexVal(SubSeq(s, 1, Len(s) - 1)) + DigitVal(s[Len(s)])

\* usize::from_str_radix(&s, 16).ok()
FromStrRadix16(s) ==
    IF Len(s) > 0 /\ \A i \in 1..Len(s) : IsHexDigit(s[i])
    THEN Some(HexVal(s)) ELSE None

\* ------------------------------------------------------ Algos and Tier
AlgosFromStr(s) == IF s \in {"randy", "salty", "group", "extern"}
                   THEN Some(s) ELSE None
TierFromStr(s) == IF s \in {"low", "med", "high"} THEN Some(s) ELSE None

\* ------------------------------------------------------ salts and keys
EmptyStr == [enc |-> 0, salt |-> 0]
PlainSalt(s) == [enc |-> 0, salt |-> s]
\* Encrypter::encrypt of a salt qb64 under the aeid a
EncryptSalt(a, q) == [enc |-> a, salt |-> q.salt]
\* Decrypter::decrypt(.., false) of a stored salt text: Some(salt qb64) when
\* the text is a cipher sealed for this decrypter
DecryptSalt(d, q) == IF q.enc # 0 /\ q.enc = d THEN Some(PlainSalt(q.salt)) ELSE None

\* the n-th random 16-byte salt (Salter::new)
RandomSalt(n) == PlainSalt(100 + n)

\* Salter::stretch is defined on a 16-byte salt only
Stretchable(q) == q.enc = 0 /\ q.salt # 0
\* Salter::signer: the seed stretched from (salt, path, tier)
SalterSigner(q, path, tier) == [salt |-> q.salt, path |-> path, tier |-> tier, rnd |-> 0]
\* Signer::new_random: the seed drawn at position n of the generator
NewRandom(n) == [salt |-> 0, path |-> <<>>, tier |-> "", rnd |-> n]
\* Signer::verfer: the public key of a seed, coded by transferability
Verfer(seed, transferable) == [seed |-> seed, xfer |-> transferable]
\* Diger::new(dcode, verfer.qb64b())
Diger(pub) == [dig |-> pub]

\* ------------------------------------------------------------ KeyStore
\* obj is the CESR primitive or event a caller of the codec functions holds
VARIABLES gbls, pres, prms, sits, pris, pths, pubs, mgr, rnd, last, obj

ks == <<gbls, pres, prms, sits, pris, pths, pubs>>
vars == <<gbls, pres, prms, sits, pris, pths, pubs, mgr, rnd, last, obj>>

Get(f, k) == IF k \in DOMAIN f THEN Some(f[k]) ELSE None
Pin(f, k, v) == [x \in (DOMAIN f) \cup {k} |-> IF x = k THEN v ELSE f[x]]
\* a put_* that writes over the stored value
PutOverwrite(f, k, v) == Pin(f, k, v)
Put(f, k, v) == IF k \in DOMAIN f THEN f ELSE Pin(f, k, v)
Rem(f, k) == [x \in (DOMAIN f) \ {k} |-> f[x]]

\* pin_gbls only when the key is not set
PinIfNone(g, k, v) == IF k \in DOMAIN g THEN g ELSE Pin(g, k, v)

ri_key(pre, ridx) == <<pre, ridx>>

\* ------------------------------------------------------------- Manager
NoManager == [made |-> FALSE, enc |-> 0]
NoObj == [op |-> "none"]

Init ==
    /\ gbls = <<>>
    /\ pres = <<>>
    /\ prms = <<>>
    /\ sits = <<>>
    /\ pris = <<>>
    /\ pths = <<>>
    /\ pubs = <<>>
    /\ mgr = NoManager
    /\ rnd = 0
    /\ last = [op |-> "init", ok |-> TRUE, pre |-> None, verfers |-> <<>>,
               digers |-> <<>>, signers |-> <<>>]
    /\ obj = NoObj

HasEncrypter == mgr.enc # 0

\* Manager::new over the shared KeyStore
ManagerNewGbls(g, enc, aeid, pidx, algo, salter, tier) ==
    LET g1 == PinIfNone(g, "pidx", Hex(UnwrapOr(pidx, 0)))
        g2 == PinIfNone(g1, "algo", UnwrapOr(algo, "salty"))
        g3 == IF salter # None /\ "salt" \notin DOMAIN g2
              THEN Pin(g2, "salt",
                       IF enc # 0 THEN EncryptSalt(enc, PlainSalt(Unwrap(salter)))
                       ELSE PlainSalt(Unwrap(salter)))
              ELSE g2
        g4 == PinIfNone(g3, "tier", UnwrapOr(tier, "low"))
        g5 == IF aeid # None THEN Pin(g4, "aeid", Unwrap(aeid)) ELSE g4
    IN g5

\* Manager::new over the gbls bucket g: whether it returns Ok, the encrypter
\* it holds and the bucket it leaves
ManagerNewOn(g, seed, aeid, pidx, algo, salter, tier) ==
    LET both == seed # None /\ aeid # None
        mismatch == both /\ Unwrap(seed) # Unwrap(aeid)
        enc == IF both THEN Unwrap(aeid) ELSE 0
    IN [ok |-> ~mismatch, enc |-> enc,
        gbls |-> IF mismatch THEN g
                 ELSE ManagerNewGbls(g, enc, aeid, pidx, algo, salter, tier)]

ManagerNew(seed, aeid, pidx, algo, salter, tier) ==
    LET m == ManagerNewOn(gbls, seed, aeid, pidx, algo, salter, tier)
    IN IF ~m.ok
       THEN /\ last' = [op |-> "new", ok |-> FALSE, pre |-> None, verfers |-> <<>>,
                        digers |-> <<>>, signers |-> <<>>]
            /\ UNCHANGED <<gbls, pres, prms, sits, pris, pths, pubs, mgr, rnd, obj>>
       ELSE /\ gbls' = m.gbls
            /\ mgr' = [made |-> TRUE, enc |-> m.enc]
            /\ last' = [op |-> "new", ok |-> TRUE, pre |-> None, verfers |-> <<>>,
                        digers |-> <<>>, signers |-> <<>>]
            /\ UNCHANGED <<pres, prms, sits, pris, pths, pubs, rnd, obj>>

\* Manager::pidx, algo, tier, salt: reads of the gbls bucket g, the salt
\* through the decrypter enc when there is one
PidxOf(g) == IF "pidx" \in DOMAIN g THEN FromStrRadix16(g["pidx"]) ELSE None
AlgoOf(g) == IF "algo" \in DOMAIN g THEN AlgosFromStr(g["algo"]) ELSE None
TierOf(g) == IF "tier" \in DOMAIN g THEN TierFromStr(g["tier"]) ELSE None
SaltOf(g, enc) == IF "salt" \notin DOMAIN g THEN None
                  ELSE IF enc # 0 THEN DecryptSalt(enc, g["salt"])
                  ELSE Some(g["salt"])
MgrPidx == PidxOf(gbls)
MgrAlgo == AlgoOf(gbls)
MgrTier == TierOf(gbls)
MgrSalt == SaltOf(gbls, mgr.enc)

\* a set_pidx that loses the write
set_pidx_lost(g, pidx) == g
set_pidx(g, pidx) == Pin(g, "pidx", Hex(pidx))

\* ------------------------------------------------------------ Creators
\* Creatory::make: r0 is the position of the random generator
CreatoryMake(algo, salt, tier, stem, r0) ==
    IF algo = "randy"
    THEN [ok |-> TRUE, rnd |-> r0,
          creator |-> [algo |-> "randy", salt |-> EmptyStr, stem |-> <<>>, tier |-> "low"]]
    ELSE IF algo = "salty"
    THEN IF salt # None
         THEN [ok |-> Unwrap(salt) # EmptyStr, rnd |-> r0,
               creator |-> [algo |-> "salty", salt |-> Unwrap(salt),
                            stem |-> UnwrapOr(stem, <<>>), tier |-> UnwrapOr(tier, "low")]]
         ELSE [ok |-> TRUE, rnd |-> r0 + 1,
               creator |-> [algo |-> "salty", salt |-> RandomSalt(r0 + 1),
                            stem |-> UnwrapOr(stem, <<>>), tier |-> UnwrapOr(tier, "low")]]
    ELSE [ok |-> FALSE, rnd |-> r0,
          creator |-> [algo |-> algo, salt |-> EmptyStr, stem |-> <<>>, tier |-> "low"]]

\* SaltyCreator::create: the path of the key at position idx (from 0)
SaltyPath(stem, pidx, ridx, kidx, idx) ==
    IF stem = <<>> THEN Hex(pidx)
    ELSE stem \o Hex(ridx) \o Hex(kidx + idx)

\* Creator::create for count keys of code ED25519_SEED
Create(creator, count, pidx, ridx, kidx, r0) ==
    IF creator.algo = "randy"
    THEN [ok |-> TRUE, rnd |-> r0 + count,
          signers |-> [i \in 1..count |-> NewRandom(r0 + i)],
          paths |-> None]
    ELSE LET paths == [i \in 1..count |->
                          SaltyPath(creator.stem, pidx, ridx, kidx, i - 1)]
         IN [ok |-> count = 0 \/ Stretchable(creator.salt), rnd |-> r0,
             signers |-> [i \in 1..count |->
                             SalterSigner(creator.salt, paths[i], creator.tier)],
             paths |-> Some(paths)]

Verfers(signers, transferable) ==
    [i \in 1..Len(signers) |-> Verfer(signers[i], transferable)]

\* ------------------------------------------------- stored key material
\* put_pris for each signer in order, sealed for the encrypter enc
RECURSIVE PutPrisAll(_, _, _, _)
PutPrisAll(f, signers, transferable, enc) ==
    IF signers = <<>> THEN f
    ELSE PutPrisAll(Put(f, Verfer(Head(signers), transferable),
                        [enc |-> enc, seed |-> Head(signers)]),
                    Tail(signers), transferable, enc)

\* put_pths for each (signer, path) in order
RECURSIVE PutPthsAll(_, _, _, _, _)
PutPthsAll(f, signers, paths, transferable, tier) ==
    IF signers = <<>> THEN f
    ELSE PutPthsAll(Put(f, Verfer(Head(signers), transferable),
                        [path |-> Head(paths), code |-> "A", tier |-> tier,
                         temp |-> FALSE]),
                    Tail(signers), Tail(paths), transferable, tier)

\* rem_pris for each public key in order
RECURSIVE RemPrisAll(_, _)
RemPrisAll(f, pubkeys) ==
    IF pubkeys = <<>> THEN f
    ELSE RemPrisAll(Rem(f, Head(pubkeys)), Tail(pubkeys))

\* get_pris: the signer of a stored cipher this decrypter can open
GetPris(pub) ==
    IF pub \in DOMAIN pris /\ mgr.enc # 0 /\ pris[pub].enc = mgr.enc
    THEN Some(pris[pub].seed) ELSE None

EmptyLot == [pubs |-> <<>>, ridx |-> 0, kidx |-> 0]

Result(op, ok, pre, verfers, digers, signers) ==
    [op |-> op, ok |-> ok, pre |-> pre, verfers |-> verfers,
     digers |-> digers, signers |-> signers]

\* -------------------------------------------------------------- incept
\* the lot of current keys and the lot of next keys that incept stores
InceptNewLot(verfers, ridx, kidx) == [pubs |-> verfers, ridx |-> ridx, kidx |-> kidx]
\* a next lot that restarts its key index at the current lot's
InceptNxtLotSameKidx(nverfers, ridx, kidx, icount) ==
    [pubs |-> nverfers, ridx |-> ridx + 1, kidx |-> kidx]
\* a next lot that keeps the rotation index of the current lot
InceptNxtLotSameRidx(nverfers, ridx, kidx, icount) ==
    [pubs |-> nverfers, ridx |-> ridx, kidx |-> kidx + icount]
InceptNxtLot(nverfers, ridx, kidx, icount) ==
    [pubs |-> nverfers, ridx |-> ridx + 1, kidx |-> kidx + icount]

\* Manager::incept over the KeyStore K (its buckets, the encrypter enc of the
\* Manager and the position rnd of the random generator)
InceptOn(K, icount, ncount, algoArg, saltArg, stemArg, tierArg, rooted, transferable) ==
    LET algo == IF rooted THEN UnwrapOr(OptOr(algoArg, AlgoOf(K.gbls)), "salty")
                ELSE UnwrapOr(algoArg, "salty")
        salt == IF rooted THEN OptOr(saltArg, SaltOf(K.gbls, K.enc)) ELSE saltArg
        tier == IF rooted THEN UnwrapOr(OptOr(tierArg, TierOf(K.gbls)), "low")
                ELSE UnwrapOr(tierArg, "low")
        pidx == UnwrapOr(PidxOf(K.gbls), 0)
        ridx == 0
        kidx == 0
        mk == CreatoryMake(algo, salt, Some(tier), stemArg, K.rnd)
        creator == mk.creator
        ikeys == Create(creator, icount, pidx, ridx, kidx, mk.rnd)
        verfers == Verfers(ikeys.signers, transferable)
        nkeys == Create(creator, ncount, pidx, ridx + 1, kidx + icount, ikeys.rnd)
        nverfers == Verfers(nkeys.signers, transferable)
        digers == [i \in 1..Len(nverfers) |-> Diger(nverfers[i])]
        pp == [pidx |-> pidx, algo |-> algo,
               salt |-> IF K.enc # 0
                        THEN IF creator.salt # EmptyStr
                             THEN EncryptSalt(K.enc, creator.salt)
                             ELSE EmptyStr
                        ELSE creator.salt,
               stem |-> creator.stem, tier |-> creator.tier]
        nw == InceptNewLot(verfers, ridx, kidx)
        nt == InceptNxtLot(nverfers, ridx, kidx, icount)
        ps == [old |-> EmptyLot, new |-> nw, nxt |-> nt]
        pre == verfers[1]
        pres1 == Put(K.pres, pre, pre)
        prms1 == Put(K.prms, pre, pp)
        gbls1 == set_pidx(K.gbls, pidx + 1)
        sits1 == Put(K.sits, pre, ps)
        pris1 == PutPrisAll(PutPrisAll(K.pris, ikeys.signers, transferable, K.enc),
                            nkeys.signers, transferable, K.enc)
        pths1 == IF nkeys.paths # None
                 THEN PutPthsAll(PutPthsAll(K.pths, ikeys.signers, Unwrap(ikeys.paths),
                                            transferable, tier),
                                 nkeys.signers, Unwrap(nkeys.paths), transferable, tier)
                 ELSE PutPthsAll(K.pths, ikeys.signers, Unwrap(ikeys.paths),
                                 transferable, tier)
        pubs1 == Put(Put(K.pubs, ri_key(pre, ridx), [pubs |-> ps.new.pubs]),
                     ri_key(pre, ridx + 1), [pubs |-> ps.nxt.pubs])
        Err(r, g, pe, pm, st) ==
            [res |-> Result("incept", FALSE, None, <<>>, <<>>, <<>>), rnd |-> r,
             gbls |-> g, pres |-> pe, prms |-> pm, sits |-> st,
             pris |-> K.pris, pths |-> K.pths, pubs |-> K.pubs]
    IN IF ~mk.ok THEN Err(K.rnd, K.gbls, K.pres, K.prms, K.sits)
       ELSE IF ~ikeys.ok THEN Err(ikeys.rnd, K.gbls, K.pres, K.prms, K.sits)
       ELSE IF ~nkeys.ok THEN Err(nkeys.rnd, K.gbls, K.pres, K.prms, K.sits)
       ELSE IF pre \in DOMAIN K.pres THEN Err(nkeys.rnd, K.gbls, K.pres, K.prms, K.sits)
       ELSE IF pre \in DOMAIN K.prms THEN Err(nkeys.rnd, K.gbls, pres1, K.prms, K.sits)
       ELSE IF pre \in DOMAIN K.sits THEN Err(nkeys.rnd, gbls1, pres1, prms1, K.sits)
       ELSE IF K.enc = 0 /\ ikeys.paths = None
            THEN Err(nkeys.rnd, gbls1, pres1, prms1, sits1)
       ELSE [res |-> Result("incept", TRUE, Some(pre), verfers, digers, <<>>),
             rnd |-> nkeys.rnd, gbls |-> gbls1, pres |-> pres1, prms |-> prms1,
             sits |-> sits1,
             pris |-> IF K.enc # 0 THEN pris1 ELSE K.pris,
             pths |-> IF K.enc # 0 THEN K.pths ELSE pths1,
             pubs |-> pubs1]

\* the KeyStore and generator the Manager of this state works on
Store ==
    [gbls |-> gbls, pres |-> pres, prms |-> prms, sits |-> sits, pris |-> pris,
     pths |-> pths, pubs |-> pubs, enc |-> mgr.enc, rnd |-> rnd]

InceptOutcome(icount, ncount, algoArg, saltArg, stemArg, tierArg, rooted, transferable) ==
    InceptOn(Store, icount, ncount, algoArg, saltArg, stemArg, tierArg, rooted,
             transferable)

Incept(icount, ncount, algoArg, saltArg, stemArg, tierArg, rooted, transferable) ==
    /\ mgr.made
    /\ UnwrapOr(MgrPidx, 0) < MaxPidx
    /\ LET out == InceptOutcome(icount, ncount, algoArg, saltArg, stemArg, tierArg,
                                rooted, transferable)
       IN /\ out.rnd <= MaxRnd
          /\ gbls' = out.gbls
          /\ pres' = out.pres
          /\ prms' = out.prms
          /\ sits' = out.sits
          /\ pris' = out.pris
          /\ pths' = out.pths
          /\ pubs' = out.pubs
          /\ rnd' = out.rnd
          /\ last' = out.res
          /\ UNCHANGED <<mgr, obj>>

\* -------------------------------------------------------------- rotate
BogusPre == Verfer(NewRandom(0), TRUE)

\* a shift that forgets to retire the current lot
ShiftKeepOld(ps0) == [old |-> ps0.old, new |-> ps0.nxt, nxt |-> ps0.nxt]
\* shift of the key sets: old <- new, new <- nxt (nxt is replaced later)
Shift(ps0) == [old |-> ps0.new, new |-> ps0.nxt, nxt |-> ps0.nxt]

\* an erasure of the lot the shift has just retired
ErasedRetired(ps0) == ps0.new.pubs
\* the public keys whose private keys rotate erases: the lot that was old
\* when rotate was called
Erased(ps0) == ps0.old.pubs

\* a rotate that takes every stored prefix for transferable
NonTransferableNever(ps0) == FALSE
\* the stored situation of a prefix that cannot rotate: no next keys
NonTransferable(ps0) == ps0.nxt.pubs = <<>>

RotateOutcome(pre, ncount, transferable) ==
    LET Err(r, st) ==
            [res |-> Result("rotate", FALSE, Some(pre), <<>>, <<>>, <<>>), rnd |-> r,
             sits |-> st, pris |-> pris, pths |-> pths, pubs |-> pubs]
    IN IF pre \notin DOMAIN prms THEN Err(rnd, sits)
       ELSE IF pre \notin DOMAIN sits THEN Err(rnd, sits)
       ELSE IF NonTransferable(sits[pre]) THEN Err(rnd, sits)
       ELSE
       LET pp == prms[pre]
           ps0 == sits[pre]
           ps == Shift(ps0)
           missing == mgr.enc # 0 /\
                      \E i \in 1..Len(ps.new.pubs) : GetPris(ps.new.pubs[i]) = None
           verfers == IF mgr.enc # 0
                      THEN [i \in 1..Len(ps.new.pubs) |->
                               Verfer(Unwrap(GetPris(ps.new.pubs[i])),
                                      ps.new.pubs[i].xfer)]
                      ELSE ps.new.pubs
           saltOpt == IF pp.salt # EmptyStr
                      THEN IF mgr.enc # 0 THEN DecryptSalt(mgr.enc, pp.salt)
                           ELSE Some(pp.salt)
                      ELSE Some(UnwrapOr(MgrSalt, EmptyStr))
           mk == CreatoryMake(pp.algo, saltOpt, Some(pp.tier), Some(pp.stem), rnd)
           pidx == pp.pidx
           ridx == ps.new.ridx + 1
           kidx == ps.nxt.kidx + Len(ps.new.pubs)
           keys == Create(mk.creator, ncount, pidx, ridx, kidx, mk.rnd)
           nverfers == Verfers(keys.signers, transferable)
           digers == [i \in 1..Len(nverfers) |-> Diger(nverfers[i])]
           ps2 == [ps EXCEPT !.nxt = [pubs |-> nverfers, ridx |-> ridx, kidx |-> kidx]]
           sits1 == Pin(sits, pre, ps2)
           pris1 == PutPrisAll(pris, keys.signers, transferable, mgr.enc)
           pths1 == PutPthsAll(pths, keys.signers, Unwrap(keys.paths), transferable,
                               pp.tier)
           pubs1 == Put(pubs, ri_key(pre, ps2.nxt.ridx), [pubs |-> ps2.nxt.pubs])
       IN IF missing THEN Err(rnd, sits)
          ELSE IF saltOpt = None THEN Err(rnd, sits)
          ELSE IF ~mk.ok THEN Err(mk.rnd, sits)
          ELSE IF ~keys.ok THEN Err(keys.rnd, sits)
          ELSE IF mgr.enc = 0 /\ keys.paths = None THEN Err(keys.rnd, sits1)
          ELSE [res |-> Result("rotate", TRUE, Some(pre), verfers, digers, <<>>),
                rnd |-> keys.rnd, sits |-> sits1,
                pris |-> RemPrisAll(IF mgr.enc # 0 THEN pris1 ELSE pris, Erased(ps0)),
                pths |-> IF mgr.enc # 0 THEN pths ELSE pths1,
                pubs |-> pubs1]

Rotate(pre, ncount, transferable) ==
    /\ mgr.made
    /\ pre \in DOMAIN sits => sits[pre].nxt.ridx < MaxRidx
    /\ LET out == RotateOutcome(pre, ncount, transferable)
       IN /\ out.rnd <= MaxRnd
          /\ sits' = out.sits
          /\ pris' = out.pris
          /\ pths' = out.pths
          /\ pubs' = out.pubs
          /\ rnd' = out.rnd
          /\ last' = out.res
          /\ UNCHANGED <<gbls, pres, prms, mgr, obj>>

\* ---------------------------------------------------------------- sign
\* length of an Ed25519 signature and the raw size of the verfer codes
SigLen == 64
VerferRawSize == 32
MaxSmallIndex == 63

\* the signer sign() obtains for one requested public key
SignerFor(pub) ==
    IF mgr.enc # 0 THEN GetPris(pub)
    ELSE IF pub \notin DOMAIN pths THEN None
    ELSE IF MgrSalt = None THEN None
    ELSE IF ~Stretchable(Unwrap(MgrSalt)) THEN None
    ELSE Some(SalterSigner(Unwrap(MgrSalt), pths[pub].path, pths[pub].tier))

\* keys: Option of the requested public keys (pubs or verfers)
SignOutcome(keys, indexed, indices) ==
    LET Err == Result("sign", FALSE, None, UnwrapOr(keys, <<>>), <<>>, <<>>)
    IN IF keys = None THEN Err
       ELSE
       LET req == Unwrap(keys)
           n == Len(req)
           signers == [i \in 1..n |-> Unwrap(SignerFor(req[i]))]
           \* the cast to u32 keeps every index the callers below give
           index(i) == IF indices # None THEN Unwrap(indices)[i] ELSE i - 1
       IN IF \E i \in 1..n : SignerFor(req[i]) = None THEN Err
          ELSE IF indices # None /\ Len(Unwrap(indices)) # n THEN Err
          ELSE IF indexed
          THEN IF \E i \in 1..n : index(i) > MaxSmallIndex THEN Err
               ELSE Result("sign", TRUE, None, req, <<>>,
                           [i \in 1..n |-> [seed |-> signers[i], index |-> index(i)]])
          ELSE IF n > 0 /\ SigLen # VerferRawSize THEN Err
          ELSE Result("sign", TRUE, None, req, <<>>,
                      [i \in 1..n |-> [seed |-> signers[i], index |-> -1]])

Sign(keys, indexed, indices) ==
    /\ mgr.made
    /\ last' = SignOutcome(keys, indexed, indices)
    /\ UNCHANGED <<gbls, pres, prms, sits, pris, pths, pubs, mgr, rnd, obj>>

\* ---------------------------------------------------------- the callers
\* arguments (seed, aeid, pidx, algo, salter, tier) given to Manager::new
ManagerArgs ==
    { <<None, None, None, Some("salty"), Some(1), None>>,
      <<None, None, None, None, None, None>>,
      <<Some(1), Some(1), None, Some("randy"), None, None>>,
      <<Some(1), Some(1), None, Some("salty"), Some(1), None>>,
      <<None, Some(2), Some(1), Some("randy"), Some(2), Some("med")>>,
      <<Some(1), Some(2), None, None, None, None>> }

\* arguments (algo, salt, stem, rooted) given to Manager::incept
InceptArgs ==
    { <<None, None, None, TRUE>>,
      <<None, None, Some(<<"s">>), TRUE>>,
      <<Some("randy"), None, None, TRUE>>,
      <<None, Some(PlainSalt(2)), Some(<<"s">>), TRUE>>,
      <<Some("group"), None, None, TRUE>>,
      <<None, None, Some(<<"s">>), FALSE>> }

Counts == { <<2, 2>>, <<1, 0>> }

\* the lots whose keys a caller asks sign() to use
Lots == { sits[pre][l].pubs : pre \in DOMAIN sits, l \in {"old", "new", "nxt"} }

\* the indices a caller gives to sign()
SignIndices ==
    { None, Some(<<1, 0>>), Some(<<64, 0>>), Some(<<0>>) }

\* the first Manager, over an empty Keeper
Construct(seed, aeid, pidx, algo, salter, tier) ==
    /\ ~mgr.made
    /\ ManagerNew(seed, aeid, pidx, algo, salter, tier)

\* a later Manager over the KeyStore an earlier Manager has filled
Reopen(seed, aeid, pidx, algo, salter, tier) ==
    /\ mgr.made
    /\ ManagerNew(seed, aeid, pidx, algo, salter, tier)

Next ==
    \/ \E a \in ManagerArgs : Construct(a[1], a[2], a[3], a[4], a[5], a[6])
    \/ \E c \in Counts, a \in InceptArgs :
           Incept(c[1], c[2], a[1], a[2], a[3], None, a[4], c[2] > 0)
    \/ \E pre \in (DOMAIN pres) \cup (DOMAIN prms) \cup {BogusPre},
          ncount \in {0, 2} :
           Rotate(pre, ncount, TRUE)
    \/ \E keys \in {None} \cup {Some(l) : l \in Lots}, indexed \in BOOLEAN,
          indices \in SignIndices :
           Sign(keys, indexed, indices)

Spec == Init /\ [][Next]_vars

\* ------------------------------ several Managers over one shared KeyStore
\* arguments (algo, salt, stem, rooted) of the incepts of this scenario
SharedInceptArgs ==
    { <<None, None, Some(<<"s">>), TRUE>>,
      <<None, None, None, TRUE>>,
      <<Some("randy"), None, None, TRUE>> }

NextShared ==
    \/ \E a \in ManagerArgs : Construct(a[1], a[2], a[3], a[4], a[5], a[6])
    \/ \E a \in ManagerArgs : Reopen(a[1], a[2], a[3], a[4], a[5], a[6])
    \/ \E a \in SharedInceptArgs :
           Incept(1, 1, a[1], a[2], a[3], None, a[4], TRUE)
    \/ \E pre \in DOMAIN prms : Rotate(pre, 1, TRUE)
    \/ \E pre \in DOMAIN sits : Sign(Some(sits[pre].new.pubs), TRUE, None)

SpecShared == Init /\ [][NextShared]_vars

\* ------------------------------------------- the KeyStore operations alone
KeeperKeys == {"k"}
KeeperVals == {1, 2}
PutBuckets == {"prms", "pris", "pths", "pres", "sits", "pubs"}
PinBuckets == {"prms", "pris", "pres", "sits"}

Bucket(b) ==
    CASE b = "prms" -> prms
      [] b = "pris" -> pris
      [] b = "pths" -> pths
      [] b = "pres" -> pres
      [] b = "sits" -> sits
      [] b = "pubs" -> pubs

\* the value a call stores: put_pris and pin_pris store the cipher of the signer
KeeperVal(b, v) == IF b = "pris" THEN [enc |-> 1, seed |-> v] ELSE v

\* the bucket b becomes f, the other buckets stay
KeeperWrite(b, f) ==
    /\ prms' = IF b = "prms" THEN f ELSE prms
    /\ pris' = IF b = "pris" THEN f ELSE pris
    /\ pths' = IF b = "pths" THEN f ELSE pths
    /\ pres' = IF b = "pres" THEN f ELSE pres
    /\ sits' = IF b = "sits" THEN f ELSE sits
    /\ pubs' = IF b = "pubs" THEN f ELSE pubs
    /\ UNCHANGED <<gbls, mgr, rnd, obj>>

KeeperPut(b, k, v) ==
    /\ KeeperWrite(b, Put(Bucket(b), k, KeeperVal(b, v)))
    /\ last' = Result("put", k \notin DOMAIN Bucket(b), Some(<<b, k>>), <<>>, <<>>, <<>>)

KeeperPin(b, k, v) ==
    /\ KeeperWrite(b, Pin(Bucket(b), k, KeeperVal(b, v)))
    /\ last' = Result("pin", TRUE, Some(<<b, k>>), <<>>, <<>>, <<>>)

KeeperRemPris(k) ==
    /\ KeeperWrite("pris", Rem(pris, k))
    /\ last' = Result("rem", TRUE, Some(<<"pris", k>>), <<>>, <<>>, <<>>)

NextKeeper ==
    \/ \E b \in PutBuckets, k \in KeeperKeys, v \in KeeperVals : KeeperPut(b, k, v)
    \/ \E b \in PinBuckets, k \in KeeperKeys, v \in KeeperVals : KeeperPin(b, k, v)
    \/ \E k \in KeeperKeys : KeeperRemPris(k)

SpecKeeper == Init /\ [][NextKeeper]_vars

\* ------------------------------------------------- base64url and Indexer
\* text is a sequence of one-character strings
B64Chars ==
    <<"A", "B", "C", "D", "E", "F", "G", "H", "I", "J", "K", "L", "M", "N", "O", "P",
      "Q", "R", "S", "T", "U", "V", "W", "X", "Y", "Z", "a", "b", "c", "d", "e", "f",
      "g", "h", "i", "j", "k", "l", "m", "n", "o", "p", "q", "r", "s", "t", "u", "v",
      "w", "x", "y", "z", "0", "1", "2", "3", "4", "5", "6", "7", "8", "9", "-", "_">>

B64Val(c) == (CHOOSE i \in 1..64 : B64Chars[i] = c) - 1

\* int_to_b64: the low 6 * len bits of n, most significant character first
RECURSIVE int_to_b64(_, _)
int_to_b64(n, len) ==
    IF len = 0 THEN <<>>
    ELSE int_to_b64(n \div 64, len - 1) \o <<B64Chars[(n % 64) + 1]>>

RECURSIVE b64_to_int(_)
b64_to_int(t) ==
    IF t = <<>> THEN 0
    ELSE 64 * b64_to_int(SubSeq(t, 1, Len(t) - 1)) + B64Val(t[Len(t)])

Pow2(n) == IF n = 0 THEN 1 ELSE IF n = 2 THEN 4 ELSE IF n = 4 THEN 16
           ELSE IF n = 6 THEN 64 ELSE 256

\* URL_SAFE_NO_PAD.encode: character k takes the six bits at bit 6 * (k - 1)
\* of the bytes, the last character padded with zero bits
B64Encode(bytes) ==
    LET byte(j) == IF j <= Len(bytes) THEN bytes[j] ELSE 0
        sextet(k) ==
            LET j == ((6 * (k - 1)) \div 8) + 1
                o == (6 * (k - 1)) % 8
            IN ((byte(j) * 256 + byte(j + 1)) \div (4 * Pow2(8 - o))) % 64
    IN [k \in 1..((8 * Len(bytes) + 5) \div 6) |-> B64Chars[sextet(k) + 1]]

\* URL_SAFE_NO_PAD.decode: None for a lone last character or for a last
\* character whose unused bits are not zero; byte j takes the eight bits at
\* bit 8 * (j - 1) of the characters
B64Decode(t) ==
    LET n == Len(t)
        nbytes == (6 * n) \div 8
        spare == 6 * n - 8 * nbytes
        val(k) == IF k <= n THEN B64Val(t[k]) ELSE 0
        octet(j) ==
            LET k == ((8 * (j - 1)) \div 6) + 1
                o == (8 * (j - 1)) % 6
            IN ((val(k) * 64 + val(k + 1)) \div Pow2(4 - o)) % 256
    IN IF n % 4 = 1 THEN None
       ELSE IF n > 0 /\ val(n) % Pow2(spare) # 0 THEN None
       ELSE Some([j \in 1..nbytes |-> octet(j)])

IsAsciiDigit(c) == c \in {"0", "1", "2", "3", "4", "5", "6", "7", "8", "9"}

\* the indexed signature codes, each with its sizes (hs, ss, fs)
IndexerSizes ==
    { [code |-> <<"A">>, hs |-> 1, ss |-> 1, fs |-> 88],
      [code |-> <<"B">>, hs |-> 1, ss |-> 1, fs |-> 88],
      [code |-> <<"C">>, hs |-> 1, ss |-> 1, fs |-> 88],
      [code |-> <<"D">>, hs |-> 1, ss |-> 1, fs |-> 88],
      [code |-> <<"E">>, hs |-> 1, ss |-> 1, fs |-> 88],
      [code |-> <<"F">>, hs |-> 1, ss |-> 1, fs |-> 88],
      [code |-> <<"0", "A">>, hs |-> 2, ss |-> 2, fs |-> 156],
      [code |-> <<"0", "B">>, hs |-> 2, ss |-> 2, fs |-> 156],
      [code |-> <<"2", "A">>, hs |-> 2, ss |-> 4, fs |-> 92],
      [code |-> <<"2", "B">>, hs |-> 2, ss |-> 4, fs |-> 92],
      [code |-> <<"2", "C">>, hs |-> 2, ss |-> 4, fs |-> 92],
      [code |-> <<"2", "D">>, hs |-> 2, ss |-> 4, fs |-> 92],
      [code |-> <<"2", "E">>, hs |-> 2, ss |-> 4, fs |-> 92],
      [code |-> <<"2", "F">>, hs |-> 2, ss |-> 4, fs |-> 92],
      [code |-> <<"3", "A">>, hs |-> 2, ss |-> 6, fs |-> 160],
      [code |-> <<"3", "B">>, hs |-> 2, ss |-> 6, fs |-> 160] }

indexer_sizage(code) == CHOOSE z \in IndexerSizes : z.code = code

IndexerIsValid(code) == \E z \in IndexerSizes : z.code = code
IndexerIsBig(code) == Len(code) = 2 /\ code[1] \in {"2", "3"}

MaxBigIndex == 16383

NoIndexer == [ok |-> FALSE, code |-> <<>>, index |-> 0, ondex |-> 0, raw |-> <<>>]

\* Indexer::new without the range check of ondex
IndexerNewAnyOndex(raw, code, index, ondex) ==
    LET max == IF IndexerIsBig(code) THEN MaxBigIndex ELSE MaxSmallIndex
        od == UnwrapOr(ondex, index)
    IN IF ~IndexerIsValid(code) THEN NoIndexer
       ELSE IF index > max THEN NoIndexer
       ELSE [ok |-> TRUE, code |-> code, index |-> index, ondex |-> od, raw |-> raw]

\* Indexer::new (Siger::new checks the code and calls it)
IndexerNew(raw, code, index, ondex) ==
    LET max == IF IndexerIsBig(code) THEN MaxBigIndex ELSE MaxSmallIndex
        od == UnwrapOr(ondex, index)
    IN IF ~IndexerIsValid(code) THEN NoIndexer
       ELSE IF index > max THEN NoIndexer
       ELSE IF od > max THEN NoIndexer
       ELSE [ok |-> TRUE, code |-> code, index |-> index, ondex |-> od, raw |-> raw]

\* Indexer::qb64
IndexerQb64(ix) ==
    IF IndexerIsBig(ix.code)
    THEN ix.code \o int_to_b64(ix.index, 2) \o int_to_b64(ix.ondex, 2)
         \o B64Encode(ix.raw)
    ELSE ix.code \o int_to_b64(ix.index, 1) \o B64Encode(ix.raw)

\* Indexer::from_qb64 (Siger::from_qb64 calls it)
IndexerFromQb64(q) ==
    IF q = <<>> THEN NoIndexer
    ELSE
    LET code == IF Len(q) >= 2 /\ IsAsciiDigit(q[1]) THEN SubSeq(q, 1, 2)
                ELSE SubSeq(q, 1, 1)
    IN IF ~IndexerIsValid(code) THEN NoIndexer
       ELSE
       LET z == indexer_sizage(code)
           index == IF IndexerIsBig(code)
                    THEN b64_to_int(SubSeq(q, z.hs + 1, z.hs + 2))
                    ELSE b64_to_int(SubSeq(q, z.hs + 1, z.hs + 1))
           ondex == IF IndexerIsBig(code)
                    THEN b64_to_int(SubSeq(q, z.hs + 3, z.hs + 4))
                    ELSE index
           raw == B64Decode(SubSeq(q, z.hs + z.ss + 1, Len(q)))
       IN IF Len(q) < z.fs THEN NoIndexer
          ELSE IF raw = None THEN NoIndexer
          ELSE [ok |-> TRUE, code |-> code, index |-> index, ondex |-> ondex,
                raw |-> Unwrap(raw)]

\* the callers of the Indexer: signatures of 64 bytes (Ed25519) and of 114
\* bytes (Ed448), indices around the limits of the small and the big codes
Ed448SigLen == 114
IndexerRaws ==
    { [i \in 1..SigLen |-> (i * 37) % 256],
      [i \in 1..Ed448SigLen |-> (i * 41) % 256] }
IndexerCodes == { z.code : z \in IndexerSizes } \cup { <<"G">> }
IndexerIndices == {0, 5, 63, 64, 4095, 4096, MaxBigIndex, MaxBigIndex + 1}
IndexerOndices == {None, Some(0), Some(7), Some(5000), Some(MaxBigIndex + 1)}

MakeIndexer(raw, code, index, ondex) ==
    /\ obj' = [op |-> "Indexer::new", from |-> <<>>,
               args |-> [code |-> code, index |-> index, ondex |-> ondex]]
              @@ IndexerNew(raw, code, index, ondex)
    /\ UNCHANGED <<gbls, pres, prms, sits, pris, pths, pubs, mgr, rnd, last>>

\* the qb64 of the Indexer held is parsed back
ParseIndexer ==
    /\ obj.op = "Indexer::new"
    /\ obj.ok
    /\ obj' = [op |-> "Indexer::from_qb64", from |-> <<obj>>]
              @@ IndexerFromQb64(IndexerQb64(obj))
    /\ UNCHANGED <<gbls, pres, prms, sits, pris, pths, pubs, mgr, rnd, last>>

NextIndexer ==
    \/ \E raw \in IndexerRaws, code \in IndexerCodes, index \in IndexerIndices,
          ondex \in IndexerOndices :
           MakeIndexer(raw, code, index, ondex)
    \/ ParseIndexer

SpecIndexer == Init /\ [][NextIndexer]_vars

\* ------------------------------------------------- texts and JSON objects
\* A string is a record: code is its CESR code ("" for a string that is no
\* primitive, "#" for a run of the dummy character), lit its characters when
\* it is a literal, seed the key a verifier's raw bytes come from (or the size
\* a version string carries), img the serialization a digest's raw bytes are
\* the BLAKE3 hash of, len its length in bytes.
Lit(chars) == [code |-> "", lit |-> chars, seed |-> 0, img |-> <<>>, len |-> Len(chars)]
EmptyText == Lit(<<>>)

\* DUMMY.to_string().repeat(n)
DummyText(n) == [code |-> "#", lit |-> <<>>, seed |-> 0, img |-> <<>>, len |-> n]

\* the full size of the one-character codes B, D and E
Qb64Size == 44
\* Matter::from_raw(raw, code).qb64() for the public key of a seed
KeyQb64(code, seed) ==
    [code |-> code, lit |-> <<>>, seed |-> seed, img |-> <<>>, len |-> Qb64Size]
\* blake3::hash(raw) wrapped as Matter::from_raw(digest, "E").qb64(); the hash
\* is taken as collision free, so the digest stands for the text hashed
DigQb64(raw) ==
    [code |-> "E", lit |-> <<>>, seed |-> 0, img |-> <<raw>>, len |-> Qb64Size]

\* utils::versify(KERI, 1.0, JSON, size)
VersionLen == 17
versify(size) ==
    [code |-> "", lit |-> <<"K", "E", "R", "I", "1", "0", "J", "S", "O", "N">>,
     seed |-> size, img |-> <<>>, len |-> VersionLen]
\* utils::deversify accepts a version string of full length
deversify(t) == t.len >= VersionLen /\ t.lit = versify(0).lit

\* usize::to_string
DecDigits == <<"0", "1", "2", "3", "4", "5", "6", "7", "8", "9">>
RECURSIVE to_string(_)
to_string(n) == IF n < 10 THEN <<DecDigits[n + 1]>>
                ELSE to_string(n \div 10) \o <<DecDigits[(n % 10) + 1]>>

\* the labels of an event in the order json! lists them, "di" set last
FieldOrder == <<"v", "t", "d", "i", "s", "kt", "k", "nt", "n", "bt", "b", "c", "a", "di">>
ListLabels == {"k", "n", "b", "c", "a"}
LabelLen(l) == IF l \in {"kt", "nt", "bt", "di"} THEN 2 ELSE 1

\* bytes of a JSON string and of a JSON array of strings, compact form
TextSize(t) == t.len + 2
RECURSIVE ItemsSize(_)
ItemsSize(l) == IF l = <<>> THEN 0 ELSE TextSize(Head(l)) + ItemsSize(Tail(l))
ListSize(l) == 2 + ItemsSize(l) + (IF Len(l) > 0 THEN Len(l) - 1 ELSE 0)

RECURSIVE FieldsSize(_, _)
FieldsSize(sad, n) ==
    IF n = 0 THEN 0
    ELSE FieldsSize(sad, n - 1)
         + (IF FieldOrder[n] \in DOMAIN sad
            THEN LabelLen(FieldOrder[n]) + 3
                 + (IF FieldOrder[n] \in ListLabels
                    THEN ListSize(sad[FieldOrder[n]])
                    ELSE TextSize(sad[FieldOrder[n]]))
            ELSE 0)

\* byte length of serde_json::to_string(sad)
JsonSize(sad) ==
    2 + FieldsSize(sad, Len(FieldOrder)) + (Cardinality(DOMAIN sad) - 1)

\* Serder::dumps and serde_json::to_vec: the compact JSON text of the object,
\* which is determined by the object and determines it
dumps(sad) == [bytes |-> JsonSize(sad), json |-> sad]

\* sad.insert(label, value)
Insert(sad, label, value) == (label :> value) @@ sad

NoRaw == [bytes |-> 0, json |-> <<>>]

\* Serder::sizeify
sizeify(sad) ==
    IF "v" \notin DOMAIN sad \/ ~deversify(sad["v"])
    THEN [ok |-> FALSE, raw |-> NoRaw, sad |-> sad]
    ELSE LET size == dumps(sad).bytes
             sized == Insert(sad, "v", versify(size))
         IN [ok |-> TRUE, raw |-> dumps(sized), sad |-> sized]

\* Serder::new(sad, None, None)
SerderNew(sad) == sizeify(sad)

\* Serder::derive_said(sad, "E", None): the digest and the object hashed
derive_said(sad) ==
    LET z == sizeify(Insert(sad, "d", DummyText(Qb64Size)))
    IN [ok |-> z.ok, said |-> DigQb64(z.raw), sad |-> z.sad]

\* saider::saidify_with_label(sad, "d"): the object with the SAID written
saidify_hashing(sad) == Insert(sad, "d", EmptyText)
saidify(sad) ==
    IF "d" \notin DOMAIN sad
    THEN [ok |-> FALSE, said |-> EmptyText, sad |-> sad]
    ELSE LET said == DigQb64(dumps(saidify_hashing(sad)))
         IN [ok |-> TRUE, said |-> said, sad |-> Insert(sad, "d", said)]

\* --------------------------------------------------- Matter and Prefixer
\* the codes of the size table that a text of this model carries
MatterCodes == {"B", "D", "E"}
\* Matter::from_qb64: the code is known and the length is the code's full size
MatterFromQb64(q) ==
    IF q.len = 0 \/ q.code \notin MatterCodes \/ q.len # Qb64Size
    THEN [ok |-> FALSE, code |-> "", qb64 |-> EmptyText]
    ELSE [ok |-> TRUE, code |-> q.code, qb64 |-> q]

\* Verfer::from_qb64: a Matter with a verification key code
VerferFromQb64(q) ==
    LET m == MatterFromQb64(q)
    IN IF m.ok /\ m.code \in {"B", "D"} THEN m
       ELSE [ok |-> FALSE, code |-> "", qb64 |-> EmptyText]

\* DerivationCode::from_code
DerivationCodes == {"B", "D", "E"}
Digestive(code) == code = "E"

NoPrefixer == [ok |-> FALSE, code |-> "", derivation |-> "", qb64 |-> EmptyText]

\* Prefixer::from_qb64
PrefixerFromQb64(q) ==
    LET m == MatterFromQb64(q)
    IN IF ~m.ok \/ m.code \notin DerivationCodes THEN NoPrefixer
       ELSE [ok |-> TRUE, code |-> m.code, derivation |-> m.code, qb64 |-> q]

IsIncepting(sad) ==
    /\ "t" \in DOMAIN sad
    /\ sad["t"].lit \in {<<"i", "c", "p">>, <<"d", "i", "p">>, <<"v", "c", "p">>}

\* Prefixer::derive_ed25519n: the qb64 derived, None on an error
derive_ed25519n(sad) ==
    IF "k" \notin DOMAIN sad \/ Len(sad["k"]) # 1 THEN None
    ELSE LET verfer == VerferFromQb64(sad["k"][1])
         IN IF ~verfer.ok \/ verfer.code # "B" THEN None
            ELSE IF "n" \in DOMAIN sad /\ sad["n"] # <<>> THEN None
            ELSE IF "b" \in DOMAIN sad /\ sad["b"] # <<>> THEN None
            ELSE IF "a" \in DOMAIN sad /\ sad["a"] # <<>> THEN None
            ELSE Some(KeyQb64("B", verfer.qb64.seed))

\* Prefixer::derive_ed25519
derive_ed25519(sad) ==
    IF "k" \notin DOMAIN sad \/ Len(sad["k"]) # 1 THEN None
    ELSE LET verfer == VerferFromQb64(sad["k"][1])
         IN IF ~verfer.ok \/ verfer.code # "D" THEN None
            ELSE Some(KeyQb64("D", verfer.qb64.seed))

\* Prefixer::derive_blake3_256
derive_blake3_256(sad) ==
    LET temp == SerderNew(Insert(Insert(sad, "i", DummyText(Qb64Size)),
                                 "d", DummyText(Qb64Size)))
    IN IF ~IsIncepting(sad) \/ ~temp.ok THEN None
       ELSE Some(DigQb64(temp.raw))

\* Prefixer::from_event(serder, code), sad the Serder's object
PrefixerFromEvent(sad, code) ==
    LET given == IF code # None THEN Unwrap(code)
                 ELSE IF "i" \in DOMAIN sad /\ sad["i"].code = ""
                         /\ Len(sad["i"].lit) = 1
                      THEN sad["i"].lit[1]
                      ELSE ""
        prefixed == "i" \in DOMAIN sad /\ sad["i"].len > 0
        derived == IF given = "B" THEN derive_ed25519n(sad)
                   ELSE IF given = "D" THEN derive_ed25519(sad)
                   ELSE derive_blake3_256(sad)
    IN IF ~IsIncepting(sad) THEN NoPrefixer
       ELSE IF code = None /\ "i" \notin DOMAIN sad THEN NoPrefixer
       ELSE IF given \notin DerivationCodes THEN NoPrefixer
       ELSE IF prefixed
       THEN LET m == MatterFromQb64(sad["i"])
            IN IF ~m.ok THEN NoPrefixer
               ELSE [ok |-> TRUE, code |-> m.code, derivation |-> given,
                     qb64 |-> m.qb64]
       ELSE IF derived = None THEN NoPrefixer
       ELSE [ok |-> TRUE, code |-> Unwrap(derived).code, derivation |-> given,
             qb64 |-> Unwrap(derived)]

\* Prefixer::verify_ed25519n
verify_ed25519n(pre, sad, prefixed) ==
    /\ "k" \in DOMAIN sad
    /\ Len(sad["k"]) = 1
    /\ sad["k"][1] = pre
    /\ prefixed => ("i" \in DOMAIN sad /\ sad["i"] = pre)
    /\ "n" \in DOMAIN sad => sad["n"] = <<>>

\* Prefixer::verify_ed25519
verify_ed25519(pre, sad, prefixed) ==
    /\ "k" \in DOMAIN sad
    /\ Len(sad["k"]) = 1
    /\ sad["k"][1] = pre
    /\ prefixed => ("i" \in DOMAIN sad /\ sad["i"] = pre)

\* Prefixer::verify_blake3_256
verify_blake3_256(pre, sad, prefixed) ==
    /\ "d" \in DOMAIN sad
    /\ sad["d"] = pre
    /\ prefixed => ("i" \in DOMAIN sad /\ sad["i"] = pre)

\* Prefixer::verify for the Prefixer p: Ok(true) or Ok(false), Err for an
\* event that is no inception
PrefixerVerify(p, sad, prefixed) ==
    IF ~IsIncepting(sad) THEN [ok |-> FALSE, val |-> FALSE]
    ELSE [ok |-> TRUE,
          val |-> IF p.derivation = "B" THEN verify_ed25519n(p.qb64, sad, prefixed)
                  ELSE IF p.derivation = "D" THEN verify_ed25519(p.qb64, sad, prefixed)
                  ELSE verify_blake3_256(p.qb64, sad, prefixed)]

\* ------------------------------------------------------ eventing::incept
ample(n) == IF n = 0 THEN 0 ELSE (n \div 2) + 1
Max(a, b) == IF a >= b THEN a ELSE b
\* the HashSet of witnesses refuses an insert
HasDuplicate(l) == \E i, j \in 1..Len(l) : i # j /\ l[i] = l[j]

\* the json! literal of incept, with "di" set when the event is delegated
EventSad(ilk, kt, keys, nt, ndigs, bt, wits, cnfg, data, delpre) ==
    LET sad == [v |-> versify(0), t |-> Lit(ilk), d |-> EmptyText, i |-> EmptyText,
                s |-> Lit(<<"0">>), kt |-> kt, k |-> keys, nt |-> nt, n |-> ndigs,
                bt |-> bt, b |-> wits, c |-> cnfg, a |-> data]
    IN IF delpre # None THEN Insert(sad, "di", Unwrap(delpre)) ELSE sad

NoSerder == [ok |-> FALSE, raw |-> NoRaw, sad |-> <<>>]

\* incept without the upper limit of the signing threshold
incept_unlimited(keys, isith, ndigs, nsith, toad, wits, cnfg, data, code, intive, delpre) ==
    LET ilk == IF delpre # None THEN <<"d", "i", "p">> ELSE <<"i", "c", "p">>
        isith_val == IF isith # None THEN FromStrRadix16(Unwrap(isith))
                     ELSE Some(Max(1, (Len(keys) + 1) \div 2))
        nsith_val == IF nsith # None THEN FromStrRadix16(Unwrap(nsith))
                     ELSE Some(Max(0, (Len(ndigs) + 1) \div 2))
        toad_val == IF toad # None THEN Unwrap(toad)
                    ELSE IF wits = <<>> THEN 0 ELSE ample(Len(wits))
        num(x) == Lit(IF intive THEN to_string(x) ELSE Hex(x))
    IN IF isith_val = None THEN NoSerder
       ELSE IF Unwrap(isith_val) < 1 THEN NoSerder
       ELSE IF nsith_val = None THEN NoSerder
       ELSE IF Unwrap(nsith_val) > Len(ndigs) THEN NoSerder
       ELSE IF HasDuplicate(wits) THEN NoSerder
       ELSE IF wits # <<>> /\ (toad_val < 1 \/ toad_val > Len(wits)) THEN NoSerder
       ELSE IF wits = <<>> /\ toad_val # 0 THEN NoSerder
       ELSE
       LET sad == EventSad(ilk, num(Unwrap(isith_val)), keys,
                           num(Unwrap(nsith_val)), ndigs, num(toad_val), wits,
                           cnfg, data, delpre)
           temp == SerderNew(sad)
           prefixer ==
               IF delpre = None /\ code = None /\ Len(keys) = 1
               THEN LET pref == PrefixerFromQb64(keys[1])
                    IN IF pref.ok /\ Digestive(pref.code) THEN NoPrefixer ELSE pref
               ELSE LET pref == IF temp.ok
                                THEN PrefixerFromEvent(temp.sad, Some(UnwrapOr(code, "E")))
                                ELSE NoPrefixer
                    IN IF pref.ok /\ delpre # None /\ ~Digestive(pref.code)
                       THEN NoPrefixer ELSE pref
       IN IF ~prefixer.ok THEN NoSerder
          ELSE LET prefixed == Insert(sad, "i", prefixer.qb64)
                   final == IF Digestive(prefixer.code)
                            THEN Insert(prefixed, "d", prefixer.qb64)
                            ELSE saidify(prefixed).sad
               IN SerderNew(final)

\* eventing::incept: the Serder returned, NoSerder for an Err
incept(keys, isith, ndigs, nsith, toad, wits, cnfg, data, code, intive, delpre) ==
    LET ilk == IF delpre # None THEN <<"d", "i", "p">> ELSE <<"i", "c", "p">>
        isith_val == IF isith # None THEN FromStrRadix16(Unwrap(isith))
                     ELSE Some(Max(1, (Len(keys) + 1) \div 2))
        nsith_val == IF nsith # None THEN FromStrRadix16(Unwrap(nsith))
                     ELSE Some(Max(0, (Len(ndigs) + 1) \div 2))
        toad_val == IF toad # None THEN Unwrap(toad)
                    ELSE IF wits = <<>> THEN 0 ELSE ample(Len(wits))
        num(x) == Lit(IF intive THEN to_string(x) ELSE Hex(x))
    IN IF isith_val = None THEN NoSerder
       ELSE IF Unwrap(isith_val) < 1 \/ Unwrap(isith_val) > Len(keys) THEN NoSerder
       ELSE IF nsith_val = None THEN NoSerder
       ELSE IF Unwrap(nsith_val) > Len(ndigs) THEN NoSerder
       ELSE IF HasDuplicate(wits) THEN NoSerder
       ELSE IF wits # <<>> /\ (toad_val < 1 \/ toad_val > Len(wits)) THEN NoSerder
       ELSE IF wits = <<>> /\ toad_val # 0 THEN NoSerder
       ELSE
       LET sad == EventSad(ilk, num(Unwrap(isith_val)), keys,
                           num(Unwrap(nsith_val)), ndigs, num(toad_val), wits,
                           cnfg, data, delpre)
           temp == SerderNew(sad)
           prefixer ==
               IF delpre = None /\ code = None /\ Len(keys) = 1
               THEN LET pref == PrefixerFromQb64(keys[1])
                    IN IF pref.ok /\ Digestive(pref.code) THEN NoPrefixer ELSE pref
               ELSE LET pref == IF temp.ok
                                THEN PrefixerFromEvent(temp.sad, Some(UnwrapOr(code, "E")))
                                ELSE NoPrefixer
                    IN IF pref.ok /\ delpre # None /\ ~Digestive(pref.code)
                       THEN NoPrefixer ELSE pref
       IN IF ~prefixer.ok THEN NoSerder
          ELSE LET prefixed == Insert(sad, "i", prefixer.qb64)
                   final == IF Digestive(prefixer.code)
                            THEN Insert(prefixed, "d", prefixer.qb64)
                            ELSE saidify(prefixed).sad
               IN SerderNew(final)

\* ----------------------------------------------- the callers of the events
\* keys, digests, witnesses and anchors a caller hands to incept
KeyDigest(key) == DigQb64([bytes |-> key.len, json |-> [k |-> <<key>>]])
EventKeys ==
    { <<>>, <<KeyQb64("B", 1)>>, <<KeyQb64("D", 1)>>,
      <<KeyQb64("D", 1), KeyQb64("D", 2)>> }
EventNdigs == { <<>>, <<KeyDigest(KeyQb64("D", 3))>> }
EventWits == { <<>>, <<KeyQb64("B", 4)>>, <<KeyQb64("B", 4), KeyQb64("B", 4)>> }
EventData == { <<>>, <<Lit(<<"x">>)>> }
EventCodes == { None, Some("E"), Some("D"), Some("B"), Some("A") }
EventSiths == { None, Some(<<"0">>) }
EventNsiths == { None, Some(<<"2">>) }
EventToads == { None }
EventDelpres == { None, Some(KeyDigest(KeyQb64("D", 5))) }
SwapKeys == { KeyQb64("D", 6), KeyQb64("B", 6) }

\* objects a caller hands to saidify: events before their SAID is set, one
\* of them without the label
SaidObjects ==
    LET evt(keys, data) ==
            Insert(EventSad(<<"i", "c", "p">>, Lit(<<"1">>), keys, Lit(<<"0">>), <<>>,
                            Lit(<<"0">>), <<>>, <<>>, data, None),
                   "i", keys[1])
        all == { evt(keys, data) : keys \in EventKeys \ {<<>>}, data \in EventData }
    IN all \cup { [l \in DOMAIN sad \ {"d"} |-> sad[l]] : sad \in all }

CallIncept(keys, isith, ndigs, nsith, toad, wits, data, code, intive, delpre) ==
    /\ obj' = [op |-> "incept"]
              @@ incept(keys, isith, ndigs, nsith, toad, wits, <<>>, data, code,
                        intive, delpre)
    /\ UNCHANGED <<gbls, pres, prms, sits, pris, pths, pubs, mgr, rnd, last>>

CallSaidify(sad) ==
    /\ obj' = [op |-> "saidify"] @@ saidify(sad)
    /\ UNCHANGED <<gbls, pres, prms, sits, pris, pths, pubs, mgr, rnd, last>>

\* Prefixer::from_qb64(i of the event held).verify(event, true)
CallVerify ==
    /\ obj.op = "incept"
    /\ obj.ok
    /\ LET p == PrefixerFromQb64(obj.sad["i"])
       IN obj' = [op |-> "verify", sad |-> obj.sad, pre |-> p,
                  res |-> IF p.ok THEN PrefixerVerify(p, obj.sad, TRUE)
                          ELSE [ok |-> FALSE, val |-> FALSE]]
    /\ UNCHANGED <<gbls, pres, prms, sits, pris, pths, pubs, mgr, rnd, last>>

\* k[0] of the event held is replaced by another key and the event verified
\* for the prefix it had
CallSwapVerify(key) ==
    /\ obj.op = "incept"
    /\ obj.ok
    /\ key # obj.sad["k"][1]
    /\ LET p == PrefixerFromQb64(obj.sad["i"])
           swapped == Insert(obj.sad, "k", [obj.sad["k"] EXCEPT ![1] = key])
       IN obj' = [op |-> "swap", sad |-> swapped, pre |-> p,
                  res |-> IF p.ok THEN PrefixerVerify(p, swapped, TRUE)
                          ELSE [ok |-> FALSE, val |-> FALSE]]
    /\ UNCHANGED <<gbls, pres, prms, sits, pris, pths, pubs, mgr, rnd, last>>

NextEvent ==
    \/ \E keys \in EventKeys, isith \in EventSiths, ndigs \in EventNdigs,
          nsith \in EventNsiths, toad \in EventToads, wits \in EventWits,
          data \in EventData, code \in EventCodes, intive \in BOOLEAN,
          delpre \in EventDelpres :
           CallIncept(keys, isith, ndigs, nsith, toad, wits, data, code, intive, delpre)
    \/ \E sad \in SaidObjects : CallSaidify(sad)
    \/ CallVerify
    \/ \E key \in SwapKeys : CallSwapVerify(key)

SpecEvent == Init /\ [][NextEvent]_vars

\* ------------------------------------------------------- Matter and codes
\* the size table of the Matter codes; a code is its sequence of characters
SIZES ==
    { [code |-> <<"A">>, hs |-> 1, ss |-> 0, fs |-> Some(44), ls |-> 0],
      [code |-> <<"B">>, hs |-> 1, ss |-> 0, fs |-> Some(44), ls |-> 0],
      [code |-> <<"C">>, hs |-> 1, ss |-> 0, fs |-> Some(44), ls |-> 0],
      [code |-> <<"D">>, hs |-> 1, ss |-> 0, fs |-> Some(44), ls |-> 0],
      [code |-> <<"E">>, hs |-> 1, ss |-> 0, fs |-> Some(44), ls |-> 0],
      [code |-> <<"F">>, hs |-> 1, ss |-> 0, fs |-> Some(44), ls |-> 0],
      [code |-> <<"G">>, hs |-> 1, ss |-> 0, fs |-> Some(44), ls |-> 0],
      [code |-> <<"H">>, hs |-> 1, ss |-> 0, fs |-> Some(44), ls |-> 0],
      [code |-> <<"I">>, hs |-> 1, ss |-> 0, fs |-> Some(44), ls |-> 0],
      [code |-> <<"J">>, hs |-> 1, ss |-> 0, fs |-> Some(44), ls |-> 0],
      [code |-> <<"K">>, hs |-> 1, ss |-> 0, fs |-> Some(76), ls |-> 0],
      [code |-> <<"L">>, hs |-> 1, ss |-> 0, fs |-> Some(76), ls |-> 0],
      [code |-> <<"M">>, hs |-> 1, ss |-> 0, fs |-> Some(4), ls |-> 0],
      [code |-> <<"N">>, hs |-> 1, ss |-> 0, fs |-> Some(12), ls |-> 0],
      [code |-> <<"O">>, hs |-> 1, ss |-> 0, fs |-> Some(44), ls |-> 0],
      [code |-> <<"P">>, hs |-> 1, ss |-> 0, fs |-> Some(124), ls |-> 0],
      [code |-> <<"Q">>, hs |-> 1, ss |-> 0, fs |-> Some(44), ls |-> 0],
      [code |-> <<"0", "A">>, hs |-> 2, ss |-> 0, fs |-> Some(24), ls |-> 0],
      [code |-> <<"0", "B">>, hs |-> 2, ss |-> 0, fs |-> Some(88), ls |-> 0],
      [code |-> <<"0", "C">>, hs |-> 2, ss |-> 0, fs |-> Some(88), ls |-> 0],
      [code |-> <<"0", "D">>, hs |-> 2, ss |-> 0, fs |-> Some(88), ls |-> 0],
      [code |-> <<"0", "E">>, hs |-> 2, ss |-> 0, fs |-> Some(88), ls |-> 0],
      [code |-> <<"0", "F">>, hs |-> 2, ss |-> 0, fs |-> Some(88), ls |-> 0],
      [code |-> <<"0", "G">>, hs |-> 2, ss |-> 0, fs |-> Some(88), ls |-> 0],
      [code |-> <<"0", "H">>, hs |-> 2, ss |-> 0, fs |-> Some(8), ls |-> 0],
      [code |-> <<"0", "I">>, hs |-> 2, ss |-> 0, fs |-> Some(88), ls |-> 0],
      [code |-> <<"2", "A">>, hs |-> 2, ss |-> 4, fs |-> Some(92), ls |-> 0],
      [code |-> <<"2", "B">>, hs |-> 2, ss |-> 4, fs |-> Some(92), ls |-> 0],
      [code |-> <<"2", "C">>, hs |-> 2, ss |-> 4, fs |-> Some(92), ls |-> 0],
      [code |-> <<"2", "D">>, hs |-> 2, ss |-> 4, fs |-> Some(92), ls |-> 0],
      [code |-> <<"2", "E">>, hs |-> 2, ss |-> 4, fs |-> Some(92), ls |-> 0],
      [code |-> <<"2", "F">>, hs |-> 2, ss |-> 4, fs |-> Some(92), ls |-> 0],
      [code |-> <<"3", "A">>, hs |-> 2, ss |-> 6, fs |-> Some(160), ls |-> 0],
      [code |-> <<"3", "B">>, hs |-> 2, ss |-> 6, fs |-> Some(160), ls |-> 0],
      [code |-> <<"1", "A", "A", "A">>, hs |-> 4, ss |-> 0, fs |-> Some(48), ls |-> 0],
      [code |-> <<"1", "A", "A", "B">>, hs |-> 4, ss |-> 0, fs |-> Some(48), ls |-> 0],
      [code |-> <<"1", "A", "A", "C">>, hs |-> 4, ss |-> 0, fs |-> Some(80), ls |-> 0],
      [code |-> <<"1", "A", "A", "D">>, hs |-> 4, ss |-> 0, fs |-> Some(80), ls |-> 0],
      [code |-> <<"1", "A", "A", "E">>, hs |-> 4, ss |-> 0, fs |-> Some(56), ls |-> 0],
      [code |-> <<"1", "A", "A", "F">>, hs |-> 4, ss |-> 0, fs |-> Some(8), ls |-> 0],
      [code |-> <<"1", "A", "A", "G">>, hs |-> 4, ss |-> 0, fs |-> Some(36), ls |-> 0],
      [code |-> <<"1", "A", "A", "H">>, hs |-> 4, ss |-> 0, fs |-> Some(100), ls |-> 0],
      [code |-> <<"1", "A", "A", "I">>, hs |-> 4, ss |-> 0, fs |-> Some(48), ls |-> 0],
      [code |-> <<"1", "A", "A", "J">>, hs |-> 4, ss |-> 0, fs |-> Some(48), ls |-> 0],
      [code |-> <<"4", "A">>, hs |-> 2, ss |-> 2, fs |-> None, ls |-> 0],
      [code |-> <<"5", "A">>, hs |-> 2, ss |-> 2, fs |-> None, ls |-> 1],
      [code |-> <<"6", "A">>, hs |-> 2, ss |-> 2, fs |-> None, ls |-> 2],
      [code |-> <<"7", "A", "A", "A">>, hs |-> 4, ss |-> 4, fs |-> None, ls |-> 0],
      [code |-> <<"8", "A", "A", "A">>, hs |-> 4, ss |-> 4, fs |-> None, ls |-> 1],
      [code |-> <<"9", "A", "A", "A">>, hs |-> 4, ss |-> 4, fs |-> None, ls |-> 2] }

\* sizage(code): None for a code the table does not hold
sizage(code) == { z \in SIZES : z.code = code }

\* HARDS: the hard size the first character of a code announces
HARDS(c) ==
    IF c \in {"A", "B", "C", "D", "E", "F", "G", "H", "I", "J", "K", "L", "M", "N",
              "O", "P", "Q"} THEN Some(1)
    ELSE IF c \in {"0", "2", "3", "4", "5", "6"} THEN Some(2)
    ELSE IF c \in {"1", "7", "8", "9"} THEN Some(4)
    ELSE None

\* extract_code(qb64): None on an error
extract_code(q) ==
    IF q = <<>> THEN None
    ELSE IF HARDS(q[1]) = None THEN None
    ELSE IF Len(q) < Unwrap(HARDS(q[1])) THEN None
    ELSE Some(SubSeq(q, 1, Unwrap(HARDS(q[1]))))

\* raw_size(code): None for an unknown code and for a code of variable size
raw_size(code) ==
    IF sizage(code) = None THEN None
    ELSE LET sz == Unwrap(sizage(code))
         IN IF sz.fs = None THEN None
            ELSE Some((((Unwrap(sz.fs) - sz.hs) * 3) \div 4) - sz.ls)

\* str::as_bytes and String::from_utf8_lossy on the characters codes are made
\* of; a byte that is no such character becomes "?"
CodeChars ==
    <<"A", "B", "C", "D", "E", "F", "G", "H", "I", "J", "K", "L", "M", "N", "O", "P",
      "Q", "R", "0", "1", "2", "3", "4", "5", "6", "7", "8", "9">>
AsciiA == 65
AsciiZero == 48
as_byte(c) ==
    LET i == CHOOSE k \in 1..Len(CodeChars) : CodeChars[k] = c
    IN IF i <= 18 THEN AsciiA + (i - 1) ELSE AsciiZero + (i - 19)
as_bytes(t) == [i \in 1..Len(t) |-> as_byte(t[i])]
from_utf8_lossy(bytes) ==
    [i \in 1..Len(bytes) |->
        IF \E k \in 1..Len(CodeChars) : as_byte(CodeChars[k]) = bytes[i]
        THEN CHOOSE c \in {CodeChars[k] : k \in 1..Len(CodeChars)} : as_byte(c) = bytes[i]
        ELSE "?"]

NoMatter == [ok |-> FALSE, code |-> <<>>, raw |-> <<>>, qb64 |-> <<>>, qb2 |-> <<>>]

\* Matter::from_raw
Matter_from_raw(raw, code) ==
    IF sizage(code) = None THEN NoMatter
    ELSE IF raw_size(code) = None THEN NoMatter
    ELSE IF Len(raw) # Unwrap(raw_size(code)) THEN NoMatter
    ELSE [ok |-> TRUE, code |-> code, raw |-> raw,
          qb64 |-> code \o B64Encode(raw), qb2 |-> as_bytes(code) \o raw]

\* Matter::from_qb64
Matter_from_qb64(q) ==
    IF q = <<>> THEN NoMatter
    ELSE IF extract_code(q) = None THEN NoMatter
    ELSE
    LET code == Unwrap(extract_code(q))
    IN IF sizage(code) = None THEN NoMatter
       ELSE
       LET sz == Unwrap(sizage(code))
           raw == B64Decode(SubSeq(q, sz.hs + 1, Len(q)))
       IN IF sz.fs # None /\ Len(q) # Unwrap(sz.fs) THEN NoMatter
          ELSE IF raw = None THEN NoMatter
          ELSE IF raw_size(code) = None THEN NoMatter
          ELSE IF Len(Unwrap(raw)) # Unwrap(raw_size(code)) THEN NoMatter
          ELSE [ok |-> TRUE, code |-> code, raw |-> Unwrap(raw), qb64 |-> q,
                qb2 |-> as_bytes(code) \o Unwrap(raw)]

\* Matter::from_qb2 with the soft size skipped too
Matter_from_qb2_soft(b) ==
    IF b = <<>> THEN NoMatter
    ELSE
    LET code_str == from_utf8_lossy(SubSeq(b, 1, IF Len(b) < 4 THEN Len(b) ELSE 4))
    IN IF extract_code(code_str) = None THEN NoMatter
       ELSE
       LET code == Unwrap(extract_code(code_str))
       IN IF sizage(code) = None THEN NoMatter
          ELSE
          LET sz == Unwrap(sizage(code))
              raw == SubSeq(b, sz.hs + sz.ss + 1, Len(b))
          IN IF raw_size(code) = None THEN NoMatter
             ELSE IF Len(raw) # Unwrap(raw_size(code)) THEN NoMatter
             ELSE [ok |-> TRUE, code |-> code, raw |-> raw,
                   qb64 |-> code \o B64Encode(raw), qb2 |-> b]

\* Matter::from_qb2
Matter_from_qb2(b) ==
    IF b = <<>> THEN NoMatter
    ELSE
    LET code_str == from_utf8_lossy(SubSeq(b, 1, IF Len(b) < 4 THEN Len(b) ELSE 4))
    IN IF extract_code(code_str) = None THEN NoMatter
       ELSE
       LET code == Unwrap(extract_code(code_str))
       IN IF sizage(code) = None THEN NoMatter
          ELSE
          LET sz == Unwrap(sizage(code))
              raw == SubSeq(b, sz.hs + 1, Len(b))
          IN IF raw_size(code) = None THEN NoMatter
             ELSE IF Len(raw) # Unwrap(raw_size(code)) THEN NoMatter
             ELSE [ok |-> TRUE, code |-> code, raw |-> raw,
                   qb64 |-> code \o B64Encode(raw), qb2 |-> b]

\* the callers of Matter: every code of the table and one unknown code, with
\* raw values of the code's raw size and of one byte less
MatterTableCodes == { z.code : z \in SIZES } \cup { <<"R">> }
RawPattern(n, k) == [i \in 1..n |-> (i * k + 11) % 256]
MatterRaws(code) ==
    LET n == UnwrapOr(raw_size(code), 32)
    IN { RawPattern(n, 37), RawPattern(n, 255), RawPattern(n - 1, 37) }

MakeMatter(raw, code) ==
    /\ obj' = [op |-> "Matter::from_raw", from |-> <<>>,
               args |-> [code |-> code, raw |-> raw]]
              @@ Matter_from_raw(raw, code)
    /\ UNCHANGED <<gbls, pres, prms, sits, pris, pths, pubs, mgr, rnd, last>>

\* the qb64 of the Matter held is decoded
ParseMatterQb64 ==
    /\ obj.op = "Matter::from_raw"
    /\ obj.ok
    /\ obj' = [op |-> "Matter::from_qb64", from |-> <<obj>>,
               args |-> [code |-> obj.code, raw |-> obj.raw]]
              @@ Matter_from_qb64(obj.qb64)
    /\ UNCHANGED <<gbls, pres, prms, sits, pris, pths, pubs, mgr, rnd, last>>

\* the qb2 of the Matter held is decoded
ParseMatterQb2 ==
    /\ obj.op = "Matter::from_raw"
    /\ obj.ok
    /\ obj' = [op |-> "Matter::from_qb2", from |-> <<obj>>,
               args |-> [code |-> obj.code, raw |-> obj.raw]]
              @@ Matter_from_qb2(obj.qb2)
    /\ UNCHANGED <<gbls, pres, prms, sits, pris, pths, pubs, mgr, rnd, last>>

NextMatter ==
    \/ \E code \in MatterTableCodes : \E raw \in MatterRaws(code) : MakeMatter(raw, code)
    \/ ParseMatterQb64
    \/ ParseMatterQb2

SpecMatter == Init /\ [][NextMatter]_vars

\* ----------------------------------------------- the callers of the Serder
NoSerderRaw == [ok |-> FALSE, raw |-> NoRaw, sad |-> <<>>, size |-> 0]

\* Serder::new with the size it caches (raw.len())
Serder_new(sad) ==
    LET z == sizeify(sad)
    IN IF ~z.ok THEN NoSerderRaw
       ELSE [ok |-> TRUE, raw |-> z.raw, sad |-> z.sad, size |-> z.raw.bytes]

\* Serder::from_raw: the object is parsed from the text and the size is the
\* one its version string carries
Serder_from_raw(raw) ==
    LET sad == raw.json
    IN IF "v" \notin DOMAIN sad \/ ~deversify(sad["v"]) THEN NoSerderRaw
       ELSE [ok |-> TRUE, raw |-> raw, sad |-> sad, size |-> sad["v"].seed]

\* version strings a caller writes: with size zero, with sizes taken from
\* other events, with a character after the underscore, and an empty one
LongVersion == [versify(0) EXCEPT !.len = VersionLen + 1]
SerderVersions ==
    { versify(0), versify(106), versify(209), versify(255), versify(300), LongVersion,
      EmptyText }
SerderObjects ==
    { Insert(sad, "v", v) : sad \in SaidObjects, v \in SerderVersions }

CallSerderNew(sad) ==
    /\ obj' = [op |-> "Serder::new"] @@ Serder_new(sad)
    /\ UNCHANGED <<gbls, pres, prms, sits, pris, pths, pubs, mgr, rnd, last>>

CallSerderFromRaw(sad) ==
    /\ obj' = [op |-> "Serder::from_raw"] @@ Serder_from_raw(dumps(sad))
    /\ UNCHANGED <<gbls, pres, prms, sits, pris, pths, pubs, mgr, rnd, last>>

\* the raw of the Serder held is parsed again
ReparseSerder ==
    /\ obj.op = "Serder::new"
    /\ obj.ok
    /\ obj' = [op |-> "Serder::from_raw"] @@ Serder_from_raw(obj.raw)
    /\ UNCHANGED <<gbls, pres, prms, sits, pris, pths, pubs, mgr, rnd, last>>

NextSerder ==
    \/ \E sad \in SerderObjects : CallSerderNew(sad)
    \/ \E sad \in SerderObjects : CallSerderFromRaw(sad)
    \/ ReparseSerder

SpecSerder == Init /\ [][NextSerder]_vars

\* ------------------------------------------ the thresholds given to incept
\* key lists and digest lists of several lengths, thresholds below, within
\* and above them, in both encodings
KeysOf(n) == [i \in 1..n |-> KeyQb64("D", i)]
DigsOf(n) == [i \in 1..n |-> KeyDigest(KeyQb64("D", 20 + i))]
ThresholdKeyCounts == {0, 1, 2, 10}
ThresholdDigCounts == {0, 1, 2}
ThresholdSiths ==
    { None, Some(<<"0">>), Some(<<"1">>), Some(<<"2">>), Some(<<"a">>), Some(<<"b">>),
      Some(<<"z">>) }
ThresholdNsiths == { None, Some(<<"0">>), Some(<<"1">>), Some(<<"3">>) }

CallInceptThresholds(nkeys, isith, ndigs, nsith, intive) ==
    /\ obj' = [op |-> "incept",
               args |-> [keys |-> nkeys, isith |-> isith, ndigs |-> ndigs,
                         nsith |-> nsith, intive |-> intive]]
              @@ incept(KeysOf(nkeys), isith, DigsOf(ndigs), nsith, None, <<>>, <<>>,
                        <<>>, None, intive, None)
    /\ UNCHANGED <<gbls, pres, prms, sits, pris, pths, pubs, mgr, rnd, last>>

NextThreshold ==
    \E nkeys \in ThresholdKeyCounts, isith \in ThresholdSiths,
       ndigs \in ThresholdDigCounts, nsith \in ThresholdNsiths, intive \in BOOLEAN :
        CallInceptThresholds(nkeys, isith, ndigs, nsith, intive)

SpecThreshold == Init /\ [][NextThreshold]_vars

\* -------------------------------------------------------------- Habery
\* The raw bytes of a seed as a number. Argon2id (Salter::stretch) and the
\* random generator are taken as collision free, so the number of a stretched
\* seed determines (salt, path, tier) and the number of a drawn seed its draw.
StemTokens == <<"s", "h", "controller", "signify:controller:">>
PathBase == 17 + Len(StemTokens)
PathSpace == PathBase * PathBase * PathBase * PathBase
CharNo(c) == IF IsHexDigit(c) THEN DigitVal(c) + 1
             ELSE 16 + (CHOOSE i \in 1..Len(StemTokens) : StemTokens[i] = c)
RECURSIVE PathNo(_)
PathNo(path) == IF path = <<>> THEN 0
                ELSE PathNo(SubSeq(path, 1, Len(path) - 1)) * PathBase
                     + CharNo(path[Len(path)])
Tiers == <<"low", "med", "high", "temp">>
TierNo(t) == (CHOOSE i \in 1..Len(Tiers) : Tiers[i] = t) - 1
SeedNo(seed) ==
    IF seed.rnd > 0 THEN seed.rnd
    ELSE MaxRnd + 1 + (seed.salt * Len(Tiers) + TierNo(seed.tier)) * PathSpace
         + PathNo(seed.path)

\* Verfer::qb64 of a public key the Manager returned
PreKey(verfer) == KeyQb64(IF verfer.xfer THEN "D" ELSE "B", SeedNo(verfer.seed))

\* A passcode: salt names its first 21 characters, len is its length and b64
\* tells whether these characters are Base64
Bran(salt, len, b64) == [salt |-> salt, len |-> len, b64 |-> b64]
MinBranLen == 21

\* Habery::new up to its Manager::new, over the gbls bucket g of a new Keeper.
\* A seed and an aeid are named by the signer they come from; the salt text
\* numbered 0 is one Salter::from_qb64 rejects.
HaberyManager(g, args) ==
    LET derive == args.passcode # None /\ args.seed = None
        bran == Unwrap(args.passcode)
        seed == IF derive THEN Some(bran.salt) ELSE args.seed
        aeid == IF derive /\ args.aeid = None THEN Some(bran.salt) ELSE args.aeid
        algo == IF args.salt # None THEN "salty" ELSE "randy"
        Err == [ok |-> FALSE, enc |-> 0, gbls |-> g]
    IN IF derive /\ bran.len < MinBranLen THEN Err
       ELSE IF derive /\ ~bran.b64 THEN Err
       ELSE IF args.salt # None /\ Unwrap(args.salt) = 0 THEN Err
       ELSE ManagerNewOn(g, seed, aeid, args.pidx, Some(algo), args.salt, args.tier)

NoHab == [name |-> <<>>, serder |-> NoSerder]
\* Hab::pre
HabPre(hab) == hab.serder.sad["i"]

\* MakeHabArgs::default()
MakeHabDefault ==
    [code |-> Some("E"), transferable |-> Some(TRUE), isith |-> None,
     icount |-> Some(1), nsith |-> None, ncount |-> None, toad |-> None,
     wits |-> None, delpre |-> None, est_only |-> Some(FALSE),
     dnd |-> Some(FALSE), data |-> None]

\* the KeyStore Manager::incept leaves
StoreAfter(K, out) ==
    [gbls |-> out.gbls, pres |-> out.pres, prms |-> out.prms, sits |-> out.sits,
     pris |-> out.pris, pths |-> out.pths, pubs |-> out.pubs, enc |-> K.enc,
     rnd |-> out.rnd]

\* F applied to the value of v, v evaluated once
With(v, F(_)) == CHOOSE r \in { F(x) : x \in {v} } : TRUE

\* the inception event make_hab builds from what Manager::incept returned
HabEvent(res, args, code, nsith0) ==
    LET verfers == res.verfers
        digers == res.digers
        isith == IF args.isith = None
                 THEN Some(Hex(Max(1, (Len(verfers) + 1) \div 2)))
                 ELSE args.isith
        nsith == IF nsith0 = None
                 THEN Some(Hex(Max(1, (Len(digers) + 1) \div 2)))
                 ELSE nsith0
        cnfg == (IF UnwrapOr(args.est_only, FALSE) THEN <<Lit(<<"E", "O">>)>> ELSE <<>>)
                \o (IF UnwrapOr(args.dnd, FALSE) THEN <<Lit(<<"D", "N", "D">>)>> ELSE <<>>)
        keys == [i \in 1..Len(verfers) |-> PreKey(verfers[i])]
        ndigs == [i \in 1..Len(digers) |-> KeyDigest(PreKey(digers[i].dig))]
    IN With(keys, LAMBDA k :
       With(ndigs, LAMBDA n :
           incept(k, isith, n, nsith, args.toad, UnwrapOr(args.wits, <<>>), cnfg,
                  UnwrapOr(args.data, <<>>), Some(code), FALSE, args.delpre)))

\* Habery::make_hab of the Habery called hname whose Manager works on K
make_hab(K, hname, habs, name, args) ==
    LET code == UnwrapOr(args.code, "E")
        transferable == UnwrapOr(args.transferable, TRUE)
        icount == UnwrapOr(args.icount, 1)
        ncount == IF ~transferable THEN 0 ELSE UnwrapOr(args.ncount, icount)
        nsith0 == IF ~transferable THEN Some(<<"0">>)
                  ELSE OptOr(args.nsith, args.isith)
    IN With(InceptOn(K, icount, ncount, None, None, Some(hname), None, TRUE,
                     transferable),
            LAMBDA out :
                IF ~out.res.ok
                THEN [ok |-> FALSE, store |-> StoreAfter(K, out), habs |-> habs,
                      hab |-> NoHab, res |-> out.res]
                ELSE With(HabEvent(out.res, args, code, nsith0),
                          LAMBDA icp :
                              IF ~icp.ok
                              THEN [ok |-> FALSE, store |-> StoreAfter(K, out),
                                    habs |-> habs, hab |-> NoHab, res |-> out.res]
                              ELSE [ok |-> TRUE, store |-> StoreAfter(K, out),
                                    habs |-> Pin(habs, name,
                                                 [name |-> name, serder |-> icp]),
                                    hab |-> [name |-> name, serder |-> icp],
                                    res |-> out.res]))

\* ------------------------------------------------ the callers of a Habery
HaberyNew(name, args) ==
    /\ ~mgr.made
    /\ LET m == HaberyManager(gbls, args)
       IN /\ gbls' = m.gbls
          /\ mgr' = IF m.ok THEN [made |-> TRUE, enc |-> m.enc] ELSE mgr
          /\ obj' = [op |-> "Habery::new", ok |-> m.ok, name |-> name, habs |-> <<>>,
                     hab |-> NoHab, args |-> args]
    /\ UNCHANGED <<pres, prms, sits, pris, pths, pubs, rnd, last>>

MakeHab(name, args) ==
    /\ mgr.made
    /\ obj.op \in {"Habery::new", "make_hab"}
    /\ UnwrapOr(MgrPidx, 0) < MaxPidx
    /\ \E out \in {make_hab(Store, obj.name, obj.habs, name, args)} :
          /\ out.store.rnd <= MaxRnd
          /\ gbls' = out.store.gbls
          /\ pres' = out.store.pres
          /\ prms' = out.store.prms
          /\ sits' = out.store.sits
          /\ pris' = out.store.pris
          /\ pths' = out.store.pths
          /\ pubs' = out.store.pubs
          /\ rnd' = out.store.rnd
          /\ last' = out.res
          /\ obj' = [op |-> "make_hab", ok |-> out.ok, name |-> obj.name,
                     habs |-> out.habs, hab |-> out.hab,
                     args |-> [name |-> name] @@ args]
    /\ UNCHANGED mgr

\* the prefix the Manager's buckets hold under the text q, BogusPre when none
ManagerPre(q) ==
    LET held == { p \in (DOMAIN pres) \cup (DOMAIN prms) \cup (DOMAIN sits) :
                    PreKey(p) = q }
    IN IF held = {} THEN BogusPre ELSE CHOOSE p \in held : TRUE

\* habery.mgr_mut().rotate(hab.pre(), ..) for the Hab called name
RotateHab(name) ==
    /\ obj.op \in {"Habery::new", "make_hab"}
    /\ name \in DOMAIN obj.habs
    /\ Rotate(ManagerPre(HabPre(obj.habs[name])), 1, TRUE)

\* arguments (passcode, seed, aeid, pidx, salt, tier) of Habery::new
HaberyArgs(passcode, salt) ==
    [passcode |-> passcode, seed |-> None, aeid |-> None, pidx |-> None,
     salt |-> salt, tier |-> None]
HaberyArgsSet ==
    { HaberyArgs(Some(Bran(11, 21, TRUE)), None),
      HaberyArgs(Some(Bran(11, 21, TRUE)), Some(1)),
      HaberyArgs(None, Some(1)),
      HaberyArgs(None, None),
      HaberyArgs(Some(Bran(12, 20, TRUE)), None),
      HaberyArgs(None, Some(0)) }

MakeHabArgsSet ==
    { MakeHabDefault,
      [MakeHabDefault EXCEPT !.code = None],
      [MakeHabDefault EXCEPT !.code = Some("D")],
      [MakeHabDefault EXCEPT !.transferable = Some(FALSE), !.code = Some("B")],
      [MakeHabDefault EXCEPT !.icount = Some(2), !.est_only = Some(TRUE)],
      [MakeHabDefault EXCEPT !.isith = Some(<<"2">>)] }

HabNames == { <<"a">>, <<"b">> }

NextHabery ==
    \/ \E args \in HaberyArgsSet : HaberyNew(<<"h">>, args)
    \/ \E name \in HabNames, args \in MakeHabArgsSet : MakeHab(name, args)
    \/ \E name \in HabNames : RotateHab(name)

SpecHabery == Init /\ [][NextHabery]_vars

\* ---------------------------------------------------------- Controller
\* format!("{}:00", stem) for the stem "signify:controller"
ControllerStem == <<"signify:controller">>
ControllerPath == <<"signify:controller:", "0", "0">>

\* the store of a Keeper::new() with the generator at position r0
NewKeeper(r0) ==
    [gbls |-> <<>>, pres |-> <<>>, prms |-> <<>>, sits |-> <<>>, pris |-> <<>>,
     pths |-> <<>>, pubs |-> <<>>, enc |-> 0, rnd |-> r0]

NoController ==
    [salter |-> EmptyStr, signer |-> NewRandom(0), serder |-> NoSerder,
     pre |-> EmptyText, stem |-> <<>>, ridx |-> 0, tier |-> "low"]

\* Controller::new(bran, tier) with the generator at position r0: the
\* Controller and the position the generator is left at. The signer is
\* stretched with temp = true, which takes the place of the tier.
Controller_new(bran, tier, r0) ==
    LET tr == UnwrapOr(tier, "low")
        salter == PlainSalt(bran.salt)
        signer == SalterSigner(salter, ControllerPath, "temp")
        Err(r) == [ok |-> FALSE, rnd |-> r, controller |-> NoController]
    IN IF bran.len < MinBranLen THEN Err(r0)
       ELSE IF ~bran.b64 THEN Err(r0)
       ELSE
       With(HaberyManager(<<>>, [passcode |-> Some(bran), seed |-> None,
                                 aeid |-> None, pidx |-> None, salt |-> None,
                                 tier |-> Some(tr)]),
            LAMBDA m :
                IF ~m.ok THEN Err(r0)
                ELSE
                With(make_hab([NewKeeper(r0) EXCEPT !.gbls = m.gbls, !.enc = m.enc],
                              <<"controller">>, <<>>, <<"controller">>, MakeHabDefault),
                     LAMBDA h :
                         IF ~h.ok THEN Err(h.store.rnd)
                         ELSE [ok |-> TRUE, rnd |-> h.store.rnd,
                               controller |->
                                   [salter |-> salter, signer |-> signer,
                                    serder |-> h.hab.serder, pre |-> HabPre(h.hab),
                                    stem |-> ControllerStem, ridx |-> 0,
                                    tier |-> tr]]))

\* Signer::sign: the signature the seed makes over the message
SignerSign(seed, msg) == [seed |-> SeedNo(seed), msg |-> msg, len |-> SigLen]
\* Verfer::from_qb64(key).verify(sig, msg)
VerferVerify(key, sig, msg) ==
    /\ key.code \in {"D", "B"}
    /\ sig.len = SigLen
    /\ sig.seed = key.seed
    /\ sig.msg = msg

NoCigar == [code |-> <<>>, raw |-> SignerSign(NewRandom(1), NoRaw), verfer |-> None]
\* Cigar::new(raw, code, verfer)
CigarNew(raw, code, verfer) ==
    IF raw_size(code) # Some(raw.len) THEN [ok |-> FALSE, cigar |-> NoCigar]
    ELSE [ok |-> TRUE, cigar |-> [code |-> code, raw |-> raw, verfer |-> verfer]]

\* Controller::event
Controller_event(c) ==
    LET signature == SignerSign(c.signer, c.serder.raw)
        made == CigarNew(signature, <<"0", "B">>, None)
    IN [ok |-> made.ok, serder |-> c.serder, cigar |-> made.cigar]

\* ------------------------------------------- the callers of a Controller
Passcodes == { Bran(11, 21, TRUE), Bran(12, 22, TRUE), Bran(11, 20, TRUE),
               Bran(13, 21, FALSE) }

\* the Controller a caller holds, with the last call and what it returned
Held(op, ok, c, evt) == [op |-> op, ok |-> ok, controller |-> c, event |-> evt]
NoEvent == [ok |-> FALSE, serder |-> NoSerder, cigar |-> NoCigar]

CallControllerNew(bran, tier) ==
    /\ \E c \in {Controller_new(bran, tier, rnd)} :
          /\ c.rnd <= MaxRnd
          /\ rnd' = c.rnd
          /\ obj' = Held("Controller::new", c.ok, c.controller, NoEvent)
    /\ UNCHANGED <<gbls, pres, prms, sits, pris, pths, pubs, mgr, last>>

HoldsController ==
    /\ obj.op \in {"Controller::new", "Controller::event", "Controller::set_ridx"}
    /\ obj.op = "Controller::new" => obj.ok

CallControllerEvent ==
    /\ HoldsController
    /\ \E e \in {Controller_event(obj.controller)} :
          obj' = Held("Controller::event", e.ok, obj.controller, e)
    /\ UNCHANGED <<gbls, pres, prms, sits, pris, pths, pubs, mgr, rnd, last>>

CallSetRidx(ridx) ==
    /\ HoldsController
    /\ obj' = Held("Controller::set_ridx", TRUE,
                   [obj.controller EXCEPT !.ridx = ridx], NoEvent)
    /\ UNCHANGED <<gbls, pres, prms, sits, pris, pths, pubs, mgr, rnd, last>>

NextController ==
    \/ \E bran \in Passcodes, tier \in {None, Some("low"), Some("high")} :
           CallControllerNew(bran, tier)
    \/ CallControllerEvent
    \/ \E ridx \in 0..MaxRidx : CallSetRidx(ridx)

SpecController == Init /\ [][NextController]_vars

\* -------------------------------------------------------- SignifyClient
\* the answers of the KERIA agent to GET /agent/{caid}: a transport error, a
\* 404, a body that is no AgentState, or a state with its ridx and pidx
AgentAnswers ==
    { [kind |-> k, ridx |-> None, pidx |-> None] : k \in {"error", "404", "garbled"} }
    \cup { [kind |-> "state", ridx |-> r, pidx |-> p] :
              r \in {None, Some(2)}, p \in {None, Some(1)} }

\* SignifyClient::state
Client_state(controller, answer) ==
    IF controller = None THEN [ok |-> FALSE, err |-> "InvalidState", state |-> answer]
    ELSE IF answer.kind = "error"
    THEN [ok |-> FALSE, err |-> "NetworkError", state |-> answer]
    ELSE IF answer.kind = "404" THEN [ok |-> FALSE, err |-> "NotFound", state |-> answer]
    ELSE IF answer.kind = "garbled"
    THEN [ok |-> FALSE, err |-> "ParseError", state |-> answer]
    ELSE [ok |-> TRUE, err |-> "", state |-> answer]

Client(op, ok, err, made, bran, pidx, controller, authn) ==
    [op |-> op, ok |-> ok, err |-> err, made |-> made, bran |-> bran, pidx |-> pidx,
     controller |-> controller, authn |-> authn]

\* SignifyClient::new
ClientNew(bran) ==
    /\ obj' = IF bran.len < MinBranLen
              THEN Client("SignifyClient::new", FALSE, "InvalidArgument", FALSE, bran,
                          0, None, None)
              ELSE Client("SignifyClient::new", TRUE, "", TRUE, bran, 0, None, None)
    /\ UNCHANGED <<gbls, pres, prms, sits, pris, pths, pubs, mgr, rnd, last>>

HoldsClient ==
    /\ obj.op \in {"SignifyClient::new", "connect", "fetch", "state", "boot"}
    /\ obj.made

\* SignifyClient::connect, the agent answering with answer
Connect(answer) ==
    /\ HoldsClient
    /\ \E c \in {Controller_new(obj.bran, None, rnd)} :
       LET held == Some(c.controller)
           st == Client_state(held, answer)
           updated == IF st.state.ridx # None
                      THEN Some([c.controller EXCEPT !.ridx = Unwrap(st.state.ridx)])
                      ELSE held
       IN /\ c.rnd <= MaxRnd
          /\ rnd' = c.rnd
          /\ obj' = IF ~c.ok
                    THEN Client("connect", FALSE, "Controller::new", TRUE, obj.bran,
                                obj.pidx, obj.controller, obj.authn)
                    ELSE IF ~st.ok
                    THEN Client("connect", FALSE, st.err, TRUE, obj.bran, obj.pidx,
                                held, obj.authn)
                    ELSE Client("connect", TRUE, "", TRUE, obj.bran,
                                UnwrapOr(st.state.pidx, 0), updated, obj.authn)
    /\ UNCHANGED <<gbls, pres, prms, sits, pris, pths, pubs, mgr, last>>

\* SignifyClient::fetch, sent tells whether the request reaches the agent
Fetch(sent) ==
    /\ HoldsClient
    /\ obj' = IF obj.authn = None
              THEN Client("fetch", FALSE, "InvalidState", TRUE, obj.bran, obj.pidx,
                          obj.controller, obj.authn)
              ELSE IF ~sent
              THEN Client("fetch", FALSE, "NetworkError", TRUE, obj.bran, obj.pidx,
                          obj.controller, obj.authn)
              ELSE Client("fetch", TRUE, "", TRUE, obj.bran, obj.pidx,
                          obj.controller, obj.authn)
    /\ UNCHANGED <<gbls, pres, prms, sits, pris, pths, pubs, mgr, rnd, last>>

\* SignifyClient::state called by the user
State(answer) ==
    /\ HoldsClient
    /\ LET st == Client_state(obj.controller, answer)
       IN obj' = Client("state", st.ok, st.err, TRUE, obj.bran, obj.pidx,
                        obj.controller, obj.authn)
    /\ UNCHANGED <<gbls, pres, prms, sits, pris, pths, pubs, mgr, rnd, last>>

\* SignifyClient::boot
Boot(sent) ==
    /\ HoldsClient
    /\ obj' = IF obj.controller = None
              THEN Client("boot", FALSE, "InvalidState", TRUE, obj.bran, obj.pidx,
                          obj.controller, obj.authn)
              ELSE IF ~Controller_event(Unwrap(obj.controller)).ok
              THEN Client("boot", FALSE, "InvalidSize", TRUE, obj.bran, obj.pidx,
                          obj.controller, obj.authn)
              ELSE IF ~sent
              THEN Client("boot", FALSE, "NetworkError", TRUE, obj.bran, obj.pidx,
                          obj.controller, obj.authn)
              ELSE Client("boot", TRUE, "", TRUE, obj.bran, obj.pidx,
                          obj.controller, obj.authn)
    /\ UNCHANGED <<gbls, pres, prms, sits, pris, pths, pubs, mgr, rnd, last>>

NextClient ==
    \/ \E bran \in Passcodes : ClientNew(bran)
    \/ \E answer \in AgentAnswers : Connect(answer)
    \/ \E sent \in BOOLEAN : Fetch(sent)
    \/ \E answer \in AgentAnswers : State(answer)
    \/ \E sent \in BOOLEAN : Boot(sent)

SpecClient == Init /\ [][NextClient]_vars

\* ---------------------------------------------------------- properties
Range(q) == { q[i] : i \in 1..Len(q) }
Distinct(q) == \A i, j \in 1..Len(q) : i # j => q[i] # q[j]

\* sign(ser, pubs = keys, indexed = true) returns signatures
CanSign(keys) == SignOutcome(Some(keys), TRUE, None).ok
\* ... and each signature is made with the private key of the requested key
SignsWith(keys) ==
    LET out == SignOutcome(Some(keys), TRUE, None)
    IN /\ out.ok
       /\ \A i \in 1..Len(keys) :
              Verfer(out.signers[i].seed, keys[i].xfer) = keys[i]

RotateOk == last.op = "rotate" /\ last.ok
InceptOk == last.op = "incept" /\ last.ok

\* C1: every rotate that returns an error leaves the stored PreSit of its
\* prefix exactly as it was before the call.
C1_FailedRotateKeepsPreSit ==
    [][(last'.op = "rotate" /\ ~last'.ok) =>
          /\ DOMAIN sits' = DOMAIN sits
          /\ \A pre \in DOMAIN sits :
                 last'.pre = Some(pre) => sits'[pre] = sits[pre]]_vars

\* C2 as stated: after an incept storing {k0,k1} as new and {k2,k3} as nxt and
\* one successful rotate with two next keys, sign over pubs = {k0,k1} fails.
C2_SignFailsAfterFirstRotate ==
    RotateOk =>
        LET ps == sits[Unwrap(last.pre)]
        IN (ps.new.ridx = 1 /\ Len(ps.old.pubs) = 2 /\ Len(ps.new.pubs) = 2
            /\ Len(ps.nxt.pubs) = 2 /\ Distinct(ps.old.pubs \o ps.new.pubs))
           => ~CanSign(ps.old.pubs)

\* C2: the first successful rotate after an incept leaves the private material
\* of the inception keys in place: sign over the inception keys succeeds after
\* the rotate exactly when it succeeded before it.
C2_FirstRotateKeepsInceptionKeys ==
    [][\A pre \in DOMAIN sits :
          (last'.op = "rotate" /\ last'.ok /\ last'.pre = Some(pre)
           /\ sits[pre].new.ridx = 0)
          => \A keys \in {sits[pre].new.pubs} :
                 /\ CanSign(keys)' = CanSign(keys)
                 /\ \A k \in Range(keys) :
                        /\ (k \in DOMAIN pris) => (k \in DOMAIN pris')
                        /\ (k \in DOMAIN pths) => (k \in DOMAIN pths')]_vars

C2_Witness ==
    /\ RotateOk
    /\ LET ps == sits[Unwrap(last.pre)]
       IN /\ ps.new.ridx = 1
          /\ Len(ps.old.pubs) = 2
          /\ Len(ps.nxt.pubs) = 2
          /\ Distinct(ps.old.pubs \o ps.new.pubs)
          /\ SignsWith(ps.old.pubs)

\* C3: after a successful rotate the stored new lot is the former nxt lot
\* (same pubs, ridx and kidx) and the stored old lot is the former new lot.
C3_RotateShiftsLots ==
    [][\A pre \in DOMAIN sits :
          (last'.op = "rotate" /\ last'.ok /\ last'.pre = Some(pre))
          => /\ sits'[pre].new = sits[pre].nxt
             /\ sits'[pre].old = sits[pre].new]_vars

C3_Witness ==
    /\ RotateOk
    /\ LET ps == sits[Unwrap(last.pre)]
       IN /\ ps.old.ridx = 1
          /\ ps.new.ridx = 2
          /\ ps.old.pubs # ps.new.pubs

\* C4: after a successful incept or rotate the public keys of the stored nxt
\* lot are pairwise distinct and none of them is in the new or the old lot.
C4_NextKeysFresh ==
    (InceptOk \/ RotateOk) =>
        LET ps == sits[Unwrap(last.pre)]
        IN /\ Distinct(ps.nxt.pubs)
           /\ Range(ps.nxt.pubs) \cap (Range(ps.new.pubs) \cup Range(ps.old.pubs)) = {}

\* C5: after a successful rotate, a sign naming the verfers that rotate
\* returned succeeds and signs with the private keys of those verfers.
C5_SignAfterRotate ==
    RotateOk => SignsWith(last.verfers)

\* C6: every incept that returns an error leaves the KeyStore unchanged.
C6_FailedInceptKeepsStore ==
    [][(last'.op = "incept" /\ ~last'.ok) => ks' = ks]_vars

\* C7: after a successful rotate, sign over any single public key of the lot
\* that was old before the call fails.
C7_OldLotUnsignable ==
    [][\A pre \in DOMAIN sits :
          (last'.op = "rotate" /\ last'.ok /\ last'.pre = Some(pre))
          => \A P \in Range(sits[pre].old.pubs) : ~CanSign(<<P>>)']_vars

\* C8: after a successful incept the stored PreSit has an empty old lot, a new
\* lot with ridx 0, kidx 0 and the returned verfers as pubs, and a nxt lot with
\* ridx 1 and kidx equal to the number of current keys.
C8_InceptLots ==
    InceptOk =>
        LET ps == sits[Unwrap(last.pre)]
        IN /\ ps.old.pubs = <<>>
           /\ ps.new.ridx = 0
           /\ ps.new.kidx = 0
           /\ ps.new.pubs = last.verfers
           /\ ps.nxt.ridx = 1
           /\ ps.nxt.kidx = Len(last.verfers)

C8_Witness ==
    /\ InceptOk
    /\ Len(last.verfers) = 2
    /\ Len(sits[Unwrap(last.pre)].nxt.pubs) = 2

\* C9: the global pidx never decreases, and no two stored prefixes have the
\* same PrePrm.pidx, whatever Managers over the one KeyStore do.
C9_PidxMonotoneUnique ==
    /\ [][UnwrapOr(MgrPidx, 0)' >= UnwrapOr(MgrPidx, 0)]_vars
    /\ [](\A p, q \in DOMAIN prms : p # q => prms[p].pidx # prms[q].pidx)

\* two prefixes, one incepted by a Manager with an encrypter and one by a
\* Manager without, and the later Manager has signed
C9_Witness ==
    /\ \E p, q \in DOMAIN prms :
           /\ prms[p].pidx < prms[q].pidx
           /\ prms[p].salt.enc # prms[q].salt.enc
    /\ UnwrapOr(MgrPidx, 0) = 2
    /\ last.op = "sign"

\* C10: Manager::new over a KeyStore whose gbls holds aeid, pidx, algo, salt
\* and tier leaves all five values unchanged, whatever its arguments.
C10_ManagerNewKeepsGbls ==
    [][(last'.op = "new"
        /\ {"aeid", "pidx", "algo", "salt", "tier"} \subseteq DOMAIN gbls)
       => \A k \in {"aeid", "pidx", "algo", "salt", "tier"} :
              gbls'[k] = gbls[k]]_vars

\* the Manager can obtain the private material of every key of the request
Obtainable(keys) == \A i \in 1..Len(keys) : SignerFor(keys[i]) # None

\* C11: sign with indexed = false, for one or more keys whose private material
\* the Manager can obtain, succeeds and returns one Cigar per requested key,
\* made with the private key of that key.
C11_NonIndexedSign ==
    \A keys \in Lots :
        (mgr.made /\ Len(keys) >= 1 /\ Obtainable(keys)) =>
            LET out == SignOutcome(Some(keys), FALSE, None)
            IN /\ out.ok
               /\ Len(out.signers) = Len(keys)
               /\ \A i \in 1..Len(keys) :
                      out.signers[i].seed = Unwrap(SignerFor(keys[i]))

\* C12: sign with indexed = true, for keys whose private material the Manager
\* can obtain, returns one Siger per requested key in request order; the i-th
\* has index indices[i] when indices are given and index i otherwise.
C12_IndexedSign ==
    \A keys \in Lots, indices \in SignIndices :
        (mgr.made /\ Obtainable(keys)
         /\ (indices # None => Len(Unwrap(indices)) = Len(keys))) =>
            LET out == SignOutcome(Some(keys), TRUE, indices)
            IN /\ out.ok
               /\ Len(out.signers) = Len(keys)
               /\ \A i \in 1..Len(keys) :
                      /\ out.signers[i].seed = Unwrap(SignerFor(keys[i]))
                      /\ out.signers[i].index =
                             IF indices # None THEN Unwrap(indices)[i] ELSE i - 1

\* C13: rotate of a prefix that has no stored PrePrm or PreSit, or whose stored
\* nxt lot is empty, returns an error, generates no keys and stores nothing.
C13_RotateRefused ==
    [][\A pre \in last'.pre :
          (last'.op = "rotate"
           /\ (pre \notin DOMAIN prms \/ pre \notin DOMAIN sits
               \/ sits[pre].nxt.pubs = <<>>))
          => /\ ~last'.ok
             /\ rnd' = rnd
             /\ ks' = ks]_vars

C13_Witness ==
    /\ last.op = "rotate"
    /\ ~last.ok
    /\ \E pre \in last.pre :
           /\ pre \in DOMAIN prms
           /\ pre \in DOMAIN sits
           /\ sits[pre].new.ridx = 0
           /\ Len(sits[pre].new.pubs) = 1
           /\ sits[pre].nxt.pubs = <<>>

\* C14: every put_* is insert-if-absent: on a key that exists it returns false
\* and leaves the bucket as it is, on an absent key it stores the value and
\* returns true; a stored entry is replaced only by a pin_*.
C14_PutInsertIfAbsent ==
    [][/\ \A b \in PutBuckets, k \in KeeperKeys, v \in KeeperVals :
              KeeperPut(b, k, v) =>
                  IF k \in DOMAIN Bucket(b)
                  THEN ~last'.ok /\ Bucket(b)' = Bucket(b)
                  ELSE /\ last'.ok
                       /\ DOMAIN Bucket(b)' = DOMAIN Bucket(b) \cup {k}
                       /\ Bucket(b)'[k] = KeeperVal(b, v)
       /\ \A b \in PutBuckets, k \in KeeperKeys :
              (k \in DOMAIN Bucket(b) /\ k \in DOMAIN Bucket(b)'
               /\ Bucket(b)'[k] # Bucket(b)[k])
              => last'.op = "pin"]_vars

C14_Witness ==
    /\ last.op = "put"
    /\ ~last.ok
    /\ last.pre = Some(<<"sits", "k">>)
    /\ sits["k"] = 2

\* C15: for each derivation code, when k[0] of an event assembled by incept is
\* replaced by a different key and every other field kept,
\* Prefixer.verify(event, prefixed = true) for the event's original prefix
\* does not return true.
C15_SwappedKeyFails ==
    obj.op = "swap" => ~(obj.res.ok /\ obj.res.val)

\* C16: the object saidify returns is a fixed point of SAID derivation: with
\* the label's value replaced by '#' characters of the code's full size,
\* serializing (as saidify does, or with the version string sized as
\* derive_said does) and hashing yields the digest stored at the label.
C16_SaidifyFixedPoint ==
    (obj.op = "saidify" /\ obj.ok) =>
        \/ obj.sad["d"] = DigQb64(dumps(Insert(obj.sad, "d", DummyText(Qb64Size))))
        \/ obj.sad["d"] = derive_said(obj.sad).said

\* C17: a Serder returned by incept has i = d = the computed prefix when the
\* derivation is digestive, and otherwise has i equal to its single key and d
\* equal to the SAID of the returned event.
C17_InceptIdentifiers ==
    (obj.op = "incept" /\ obj.ok) =>
        IF Digestive(obj.sad["i"].code)
        THEN /\ obj.sad["i"] = obj.sad["d"]
             /\ Some(obj.sad["i"]) = derive_blake3_256(obj.sad)
        ELSE /\ Len(obj.sad["k"]) = 1
             /\ obj.sad["i"] = obj.sad["k"][1]
             /\ obj.sad["d"] = derive_said(obj.sad).said

\* C18: an inception event whose identifier is a non-transferable key has
\* empty n, b and a lists: incept returns no other, and Prefixer.verify
\* returns true for no other.
C18_NonTransferableEmptyLists ==
    ((obj.op = "incept" /\ obj.ok /\ obj.sad["i"].code = "B")
     \/ (obj.op = "verify" /\ obj.sad["i"].code = "B" /\ obj.res.ok /\ obj.res.val))
    => (obj.sad["n"] = <<>> /\ obj.sad["b"] = <<>> /\ obj.sad["a"] = <<>>)

\* C19: for every Indexer (or Siger) that construction accepts, parsing its
\* qb64 with from_qb64 yields the same code, index, ondex and raw bytes.
C19_IndexerRoundTrip ==
    obj.op = "Indexer::from_qb64" =>
        /\ obj.ok
        /\ obj.code = obj.from[1].code
        /\ obj.index = obj.from[1].index
        /\ obj.ondex = obj.from[1].ondex
        /\ obj.raw = obj.from[1].raw

\* C20: every Indexer (or Siger) with a small code has ondex equal to index,
\* whether Indexer::new built it, with or without an explicit ondex, or
\* from_qb64 parsed it.
C20_SmallCodeOndex ==
    (obj.op \in {"Indexer::new", "Indexer::from_qb64"} /\ obj.ok
     /\ Len(obj.code) = 1)
    => obj.ondex = obj.index

\* the largest index and ondex an Indexer of this code may carry
IndexBound(code) == IF IndexerIsBig(code) THEN MaxBigIndex ELSE MaxSmallIndex

\* C21: Indexer (and Siger) construction returns an error for every index or
\* ondex above 63 with a small code and above 16383 with a big code, and no
\* Indexer, built or parsed, has an index or ondex above its code's bound.
C21_IndexBounds ==
    /\ (obj.op = "Indexer::new" /\ IndexerIsValid(obj.args.code)
        /\ (\/ obj.args.index > IndexBound(obj.args.code)
            \/ UnwrapOr(obj.args.ondex, 0) > IndexBound(obj.args.code)))
       => ~obj.ok
    /\ (obj.op \in {"Indexer::new", "Indexer::from_qb64"} /\ obj.ok)
       => (obj.index <= IndexBound(obj.code) /\ obj.ondex <= IndexBound(obj.code))

\* an ondex above the bound of a big code was refused although the index
\* was within it
C21_Witness ==
    /\ obj.op = "Indexer::new"
    /\ ~obj.ok
    /\ IndexerIsBig(obj.args.code)
    /\ obj.args.index <= MaxBigIndex
    /\ obj.args.ondex = Some(MaxBigIndex + 1)

\* C22: for every code of the Matter size table and every raw value of that
\* code's raw size, from_raw succeeds, and decoding the qb64 it produced
\* returns the same (code, raw), and so does decoding its qb2.
C22_MatterRoundTrip ==
    /\ (obj.op = "Matter::from_raw" /\ raw_size(obj.args.code) # None
        /\ Len(obj.args.raw) = Unwrap(raw_size(obj.args.code)))
       => obj.ok
    /\ obj.op \in {"Matter::from_qb64", "Matter::from_qb2"}
       => (obj.ok /\ obj.code = obj.from[1].code /\ obj.raw = obj.from[1].raw)

\* a qb2 of a code with a soft size, holding bytes that are no characters,
\* was decoded
C22_Witness ==
    /\ obj.op = "Matter::from_qb2"
    /\ obj.ok
    /\ Unwrap(sizage(obj.code)).ss > 0
    /\ \E i \in 1..Len(obj.raw) : obj.raw[i] > 127

\* C23: for every Serder, built by Serder::new or parsed by Serder::from_raw,
\* the size its v field carries and the size size() reports equal the byte
\* length of its raw serialization.
C23_SerderSize ==
    (obj.op \in {"Serder::new", "Serder::from_raw"} /\ obj.ok)
    => (obj.sad["v"].seed = obj.raw.bytes /\ obj.size = obj.raw.bytes)

\* the number a decimal string denotes
DecVal(t) ==
    LET digit(c) == (CHOOSE i \in 1..10 : DecDigits[i] = c) - 1
        RECURSIVE val(_)
        val(q) == IF q = <<>> THEN 0
                  ELSE 10 * val(SubSeq(q, 1, Len(q) - 1)) + digit(q[Len(q)])
    IN val(t)
\* the threshold a kt or nt field denotes in the encoding intive selects
Threshold(t, intive) == IF intive THEN DecVal(t.lit) ELSE HexVal(t.lit)
\* a threshold argument is a hexadecimal number that satisfies P
SithIs(sith, P(_)) ==
    sith # None /\ FromStrRadix16(Unwrap(sith)) # None
    /\ P(Unwrap(FromStrRadix16(Unwrap(sith))))

\* C24: incept returns an error whenever the signing threshold is below 1 or
\* above the number of keys, or the next threshold is above the number of
\* next digests, so every event it returns has 1 <= kt <= len(k) and
\* nt <= len(n).
C24_Thresholds ==
    obj.op = "incept" =>
        /\ SithIs(obj.args.isith, LAMBDA x : x < 1 \/ x > obj.args.keys) => ~obj.ok
        /\ SithIs(obj.args.nsith, LAMBDA x : x > obj.args.ndigs) => ~obj.ok
        /\ obj.ok =>
            /\ 1 <= Threshold(obj.sad["kt"], obj.args.intive)
            /\ Threshold(obj.sad["kt"], obj.args.intive) <= Len(obj.sad["k"])
            /\ Threshold(obj.sad["nt"], obj.args.intive) <= Len(obj.sad["n"])

\* a signing threshold above the number of keys was refused
C24_Witness ==
    /\ obj.op = "incept"
    /\ ~obj.ok
    /\ obj.args.keys = 1
    /\ obj.args.isith = Some(<<"2">>)
    /\ obj.args.nsith = Some(<<"0">>)

\* C25: after SignifyClient::connect has returned Ok the client's controller
\* and authenticater are both initialised, and a fetch that follows does not
\* fail with InvalidState ("Not authenticated").
C25_ConnectAuthenticates ==
    [][(obj.op = "connect" /\ obj.ok)
         => /\ obj.controller # None
            /\ obj.authn # None
            /\ (obj'.op = "fetch" => obj'.err # "InvalidState")]_vars

\* C26: every signature sign returns for a requested public key is made with
\* the private key of that key: the signer sign obtains for the key has the
\* key as its public key, also when the prefix was incepted with a salt other
\* than the salt of the Manager.
C26_SignsWithRequestedKey ==
    (last.op = "sign" /\ last.ok)
    => \A i \in 1..Len(last.verfers) :
           Verfer(last.signers[i].seed, last.verfers[i].xfer) = last.verfers[i]

\* C27: in every state reached through incept and rotate calls, every stored
\* PreSit has nxt.ridx = new.ridx + 1 and nxt.kidx = new.kidx + |new.pubs|, so
\* the key-index ranges of the new lot and the nxt lot do not overlap.
C27_LotsFollowEachOther ==
    \A pre \in DOMAIN sits :
        /\ sits[pre].nxt.ridx = sits[pre].new.ridx + 1
        /\ sits[pre].nxt.kidx = sits[pre].new.kidx + Len(sits[pre].new.pubs)
C27_Witness ==
    /\ RotateOk
    /\ \E pre \in DOMAIN sits :
           /\ last.pre = Some(pre)
           /\ sits[pre].new.ridx = 2
           /\ sits[pre].new.kidx = 4
           /\ Len(sits[pre].nxt.pubs) = 2

\* C28: a make_hab (Manager::incept) issued with the same salt, stem and key
\* counts as an earlier successful one succeeds too, and its prefix and keys
\* differ from those of the earlier one.
C28_SecondInceptionDiffers ==
    [][(/\ obj.op = "make_hab" /\ obj.ok
        /\ obj'.op = "make_hab" /\ last'.op = "incept"
        /\ \A f \in (DOMAIN obj.args) \ {"name"} : obj'.args[f] = obj.args[f])
       => /\ obj'.ok
          /\ HabPre(obj'.hab) # HabPre(obj.hab)
          /\ Range(obj'.hab.serder.sad["k"]) \cap Range(obj.hab.serder.sad["k"]) = {}]_vars

\* C29: the prefix of every Hab make_hab returns (the i field of its
\* inception event) is the prefix under which the Manager of the Habery stored
\* the keys it made for it: its PrePrm and PreSit are found under hab.pre().
C29_HabPreIsManagerPre ==
    (obj.op = "make_hab" /\ obj.ok)
    => \E pre \in (DOMAIN prms) \cap (DOMAIN sits) :
           /\ PreKey(pre) = HabPre(obj.hab)
           /\ last.pre = Some(pre)

\* C30: the signature Controller::event returns verifies over the raw bytes
\* of the returned inception event under the first key the event lists.
C30_EventSignedByListedKey ==
    (obj.op = "Controller::event" /\ obj.ok)
    => VerferVerify(obj.event.serder.sad["k"][1], obj.event.cigar.raw,
                    obj.event.serder.raw)
====
